---- MODULE Spec2Model ----
(***************************************************************************)
(* A model of tree-nvim-rs: the flattened-tree state engine of             *)
(* src/src/tree.rs (struct Tree and its actions), the column layout of     *)
(* src/src/column.rs (ColumnCell::new) and the request/notification        *)
(* handler of src/src/tree_handler.rs.                                     *)
(*                                                                         *)
(* A path is the sequence of its components: << >> is "/", <<"a","c">> is  *)
(* "/a/c".  A node (FileItem) is a record; its `parent` field holds the    *)
(* path of the parent FileItem.  In the source `parent` is an Arc to the   *)
(* parent object, which is always the object stored in file_items for that *)
(* path (children are only ever created with the list's own Arc as parent, *)
(* and a node leaves the list together with all its descendants), so       *)
(* reading a field through the Arc is reading the list entry of that path. *)
(***************************************************************************)
EXTENDS Integers, Sequences, FiniteSets, TLC

----------------------------------------------------------------------------
(* Bounds of the model *)

\* the cursor values a caller supplies range over 0 .. node count + CursorSlack
CursorSlack == 1
\* the user keeps at most this many rows selected by toggle_select
MaxSelected == 1
\* at most this many filesystem changes (made by actions or from outside)
MaxFsOps == 1
\* at most this many configuration updates of a built tree
MaxCfgOps == 1
\* action_cd records line numbers 1 .. MaxCdCursor
MaxCdCursor == 1
\* the number of requests and notifications handled concurrently
NumTasks == 3

\* number of threads that share the Singleton
NumThreads == 2

\* the actions that draw on the text surface
MaxDraws == 3

\* the node list grows to at most this length where stale cell lists let it grow
MaxNodes == 6

----------------------------------------------------------------------------
(* The filesystem *)

\* file names of display width 58, 61 and 8
Wide58 == "mmmmmmmmmmmmmmmmmmmmmmmmmmmmmmmmmmmmmmmmmmmmmmmmmmmmmmmmmm"

Wide61 == "nnnnnnnnnnnnnnnnnnnnnnnnnnnnnnnnnnnnnnnnnnnnnnnnnnnnnnnnnnnnn"

Wide8 == "notes.md"

\* file names in ascending byte order (OsString::cmp), '.' sorts before letters
Names == << ".h", "a", "b", "c", "f", Wide58, Wide61, Wide8, "x", "y" >>

NameRank(n) == CHOOSE i \in 1..Len(Names) : Names[i] = n

\* std::fs::Metadata::is_dir of an entry: in the model the name decides the kind
DirNames == {"a", "b", "c"}

\* byte length (= display width, the names are ASCII) of a file name
NameLen(n) == Len(n)

\* the names the scanner hides unless show_ignored_files: starts_with('.')
HiddenNames == {".h"}

NoPath == << "<none>" >>

RootDir == << >>

IsDirPath(p) == p = RootDir \/ p[Len(p)] \in DirNames

ParentPath(p) == SubSeq(p, 1, Len(p) - 1)

FileName(p) == p[Len(p)]

\* the filesystem the process starts on
InitFs ==
    { RootDir, <<"a">>, <<"a", "c">>, <<"a", "c", "x">>,
      <<"b">>, <<"f">>, <<".h">> }

\* the directories of the model's universe
AllDirs == { RootDir, <<"a">>, <<"a", "c">>, <<"b">> }

\* Path::is_dir
is_dir(fsys, p) == p \in fsys /\ IsDirPath(p)

\* Path::exists
exists(fsys, p) == p \in fsys

\* p lies below (or is) q
IsPrefix(q, p) == Len(q) <= Len(p) /\ SubSeq(p, 1, Len(q)) = q

\* Path::to_str of an absolute path
PathStr(p) ==
    IF p = RootDir THEN "/"
    ELSE LET RECURSIVE str(_)
             str(i) == IF i = 0 THEN "" ELSE str(i - 1) \o "/" \o p[i]
         IN str(Len(p))

PathStrLen(p) == Len(PathStr(p))

----------------------------------------------------------------------------
(* The world a scan reads: the existing paths and the directories whose    *)
(* read_dir fails (permission denied)                                      *)

\* std::fs::read_dir(path) succeeds
CanReadDir(w, p) == is_dir(w.fs, p) /\ p \notin w.unreadable

\* the comparator of entries.sort_by: directories first, then by file name
EntryLess(l, r) ==
    IF IsDirPath(l) /\ ~IsDirPath(r) THEN TRUE
    ELSE IF ~IsDirPath(l) /\ IsDirPath(r) THEN FALSE
    ELSE NameRank(FileName(l)) < NameRank(FileName(r))

RECURSIVE SortEntries(_)
SortEntries(S) ==
    IF S = {} THEN << >>
    ELSE LET m == CHOOSE x \in S : \A y \in S \ {x} : EntryLess(x, y)
         IN << m >> \o SortEntries(S \ {m})

\* a listing that never hides an entry
DirEntries_All(w, show_ignored_files, dir) ==
    { p \in w.fs : Len(p) = Len(dir) + 1 /\ ParentPath(p) = dir }

\* the entries read_dir yields for a directory, after the hidden-file filter
DirEntries(w, show_ignored_files, dir) ==
    { p \in w.fs : /\ Len(p) = Len(dir) + 1
                   /\ ParentPath(p) = dir
                   /\ (show_ignored_files \/ FileName(p) \notin HiddenNames) }

----------------------------------------------------------------------------
(* FileItem *)

NoParent == NoPath

\* a constructor that starts the root at depth 0
FileItem_new_Level0(path, id) ==
    [ path |-> path, is_dir |-> IsDirPath(path), level |-> 0,
      parent |-> NoParent, last |-> FALSE, id |-> id ]

\* FileItem::new: level -1, no parent, not last
FileItem_new(path, id) ==
    [ path |-> path, is_dir |-> IsDirPath(path), level |-> 0 - 1,
      parent |-> NoParent, last |-> FALSE, id |-> id ]

\* Tree::is_item_opened
is_item_opened(t, path) ==
    path \in DOMAIN t.expand_store /\ t.expand_store[path]

\* Tree::is_item_selected
is_item_selected(t, idx) == idx \in t.selected_items

\* a scan that lists the entries of the directory and never looks into the
\* expand store
ScanEntries_Flat(t, w, item, entries, i, fileitem_lst, start_id) ==
    [ ok |-> TRUE,
      items |-> fileitem_lst \o
                  [ k \in 1 .. Len(entries) |->
                      [ path |-> entries[k], is_dir |-> IsDirPath(entries[k]),
                        level |-> item.level + 1, parent |-> item.path,
                        last |-> (k = Len(entries)), id |-> start_id + k - 1 ] ],
      next_id |-> start_id + Len(entries) ]

\* a scan that lists the entries of the directory and links each to the
\* directory above the scanned one
ScanEntries_GrandParent(t, w, item, entries, i, fileitem_lst, start_id) ==
    [ ok |-> TRUE,
      items |-> fileitem_lst \o
                  [ k \in 1 .. Len(entries) |->
                      [ path |-> entries[k], is_dir |-> IsDirPath(entries[k]),
                        level |-> item.level + 1,
                        parent |-> IF item.path = RootDir THEN item.path
                                   ELSE ParentPath(item.path),
                        last |-> (k = Len(entries)), id |-> start_id + k - 1 ] ],
      next_id |-> start_id + Len(entries) ]

\* Depth-first scan below `item`: appends to fileitem_lst, numbering ids from
\* start_id.  ok = FALSE is the Err of a failed read_dir (the `?`).
RECURSIVE entry_info_recursively_sync(_, _, _, _, _)
RECURSIVE ScanEntries(_, _, _, _, _, _, _)
ScanEntries(t, w, item, entries, i, fileitem_lst, start_id) ==
    IF i > Len(entries)
    THEN [ ok |-> TRUE, items |-> fileitem_lst, next_id |-> start_id ]
    ELSE LET fileitem == [ path |-> entries[i],
                           is_dir |-> IsDirPath(entries[i]),
                           level |-> item.level + 1,
                           parent |-> item.path,
                           last |-> (i = Len(entries)),
                           id |-> start_id ]
         IN IF is_item_opened(t, fileitem.path)
            THEN LET r == entry_info_recursively_sync(
                              t, w, fileitem, Append(fileitem_lst, fileitem),
                              start_id + 1)
                 IN IF ~r.ok THEN r
                    ELSE ScanEntries(t, w, item, entries, i + 1, r.items, r.next_id)
            ELSE ScanEntries(t, w, item, entries, i + 1,
                             Append(fileitem_lst, fileitem), start_id + 1)

entry_info_recursively_sync(t, w, item, fileitem_lst, start_id) ==
    IF ~CanReadDir(w, item.path)
    THEN [ ok |-> FALSE, items |-> fileitem_lst, next_id |-> start_id ]
    ELSE ScanEntries(t, w, item,
                     SortEntries(DirEntries(w, t.show_ignored_files, item.path)),
                     1, fileitem_lst, start_id)

----------------------------------------------------------------------------
(* Column layout: ColumnCell::new and Tree::make_cells                     *)

\* the alignment stop of the filename column
KSTOP == 60

ColumnTypes == {"mark", "indent", "git", "icon", "filename", "size", "time"}

\* Config::default().columns
DefaultColumns == << "mark", "indent", "git", "icon", "filename", "size", "time" >>

\* A text is a sequence of pieces [g: what it shows, w: display width
\* (UnicodeWidthStr::width), b: length in bytes (String::len)].
Piece(g, w, b) == [ g |-> g, w |-> w, b |-> b ]

Spaces(n) == IF n = 0 THEN << >> ELSE << Piece("spaces", n, n) >>

RECURSIVE TextWidth(_)
TextWidth(text) ==
    IF text = << >> THEN 0 ELSE Head(text).w + TextWidth(Tail(text))

RECURSIVE TextLen(_)
TextLen(text) ==
    IF text = << >> THEN 0 ELSE Head(text).b + TextLen(Tail(text))

\* the files whose permissions are read-only
ReadOnlyNames == { }

readonly(fileitem) ==
    fileitem.path # RootDir /\ FileName(fileitem.path) \in ReadOnlyNames

\* the FileItem a `parent` Arc points to
ParentItem(t, fileitem) ==
    t.file_items[CHOOSE k \in 1..Len(t.file_items) :
                    t.file_items[k].path = fileitem.parent]

HasParentItem(t, fileitem) ==
    \E k \in 1..Len(t.file_items) : t.file_items[k].path = fileitem.parent

\* position (0-based) of the last occurrence of a column type, -1 if absent
LastIndexOf(columns, ty) ==
    LET S == { i \in 1..Len(columns) : columns[i] = ty }
    IN IF S = {} THEN 0 - 1 ELSE (CHOOSE i \in S : \A j \in S : j <= i) - 1

\* the ancestors' continuation markers, innermost first (inversed_elements
\* after the node's own edge), walking the parent chain
RECURSIVE IndentAncestors(_, _, _, _, _)
IndentAncestors(t, fileitem, i, max_level, prefix) ==
    IF fileitem.parent = NoParent \/ ~HasParentItem(t, fileitem) \/ i >= max_level
    THEN << >>
    ELSE LET pf == ParentItem(t, fileitem)
         IN << IF pf.last THEN Piece("blank", 2, 2) ELSE Piece("bar", 2, 4) >>
            \o prefix
            \o IndentAncestors(t, pf, i + 1, max_level, prefix)

RECURSIVE Reverse(_)
Reverse(s) == IF s = << >> THEN << >> ELSE Reverse(Tail(s)) \o << Head(s) >>

\* ColumnCell::new: the text and highlight group of one (row, column) pair
ColumnCell_new(t, fileitem, ty, is_root_cell) ==
    CASE ty = "mark" ->
            IF readonly(fileitem)
            THEN [ text |-> << Piece("READ_ONLY_ICON", 1, 3) >>, hl_group |-> "tree_color_brow" ]
            ELSE IF is_item_selected(t, fileitem.id)
            THEN [ text |-> << Piece("SELECTED_ICON", 1, 3) >>, hl_group |-> "tree_color_green" ]
            ELSE [ text |-> << Piece(" ", 1, 1) >>, hl_group |-> "None" ]
      [] ty = "indent" ->
            LET margin == LastIndexOf(t.columns, "icon")
                            - LastIndexOf(t.columns, "indent") - 1
                margin_val == IF margin >= 0 THEN margin ELSE 0
                prefix == Spaces(margin_val * 2)
                inversed_elements ==
                    IF fileitem.level > 0
                    THEN << IF fileitem.last THEN Piece("corner", 2, 4)
                                             ELSE Piece("bar", 2, 4) >>
                         \o prefix
                         \o IndentAncestors(t, fileitem, 0, fileitem.level - 1, prefix)
                    ELSE << >>
            IN [ text |-> Reverse(inversed_elements), hl_group |-> "None" ]
      [] ty = "icon" ->
            IF fileitem.is_dir
            THEN IF ~is_root_cell
                 THEN IF is_item_opened(t, fileitem.path)
                      THEN [ text |-> << Piece("FolderOpened", 1, 3), Piece(" ", 1, 1) >>,
                             hl_group |-> "tree_icon_FolderOpened" ]
                      ELSE [ text |-> << Piece("FolderClosed", 1, 3), Piece(" ", 1, 1) >>,
                             hl_group |-> "tree_icon_FolderClosed" ]
                 ELSE [ text |-> << Piece(" ", 1, 1) >>, hl_group |-> "None" ]
            ELSE [ text |-> << Piece("Unknown", 1, 3), Piece(" ", 1, 1) >>,
                   hl_group |-> "tree_icon_Unknonwn" ]
      [] ty = "filename" ->
            IF is_root_cell
            THEN [ text |-> << Piece(t.root_marker, Len(t.root_marker), Len(t.root_marker)),
                               Piece(PathStr(fileitem.path), PathStrLen(fileitem.path),
                                     PathStrLen(fileitem.path)) >>,
                   hl_group |-> "tree_color_yellow" ]
            ELSE IF fileitem.is_dir
            THEN [ text |-> << Piece(FileName(fileitem.path),
                                     NameLen(FileName(fileitem.path)),
                                     NameLen(FileName(fileitem.path))),
                               Piece("/", 1, 1) >>,
                   hl_group |-> "tree_color_blue" ]
            ELSE [ text |-> << Piece(FileName(fileitem.path),
                                     NameLen(FileName(fileitem.path)),
                                     NameLen(FileName(fileitem.path))) >>,
                   hl_group |-> "tree_color_yellow" ]
      [] OTHER -> [ text |-> << >>, hl_group |-> "None" ]

\* a layout that puts one blank column after every column, indent included
NextStart_OneSep(columns, row, field) ==
    IF row = << >> THEN 0 ELSE row[Len(row)][field] + 1

\* where the next cell of a row starts: `start` (field "col_end") and
\* `byte_start` (field "byte_end") after the cells of `row`; the indent
\* column is followed by no separator
NextStart(columns, row, field) ==
    IF row = << >> THEN 0
    ELSE row[Len(row)][field] + (IF columns[Len(row)] = "indent" THEN 0 ELSE 1)

\* a layout that leaves the filename cell at its natural extent
PlaceCell_Unpadded(c, col, start, byte_start) ==
    [ text |-> c.text, hl_group |-> c.hl_group,
      col_start |-> start, col_end |-> start + TextWidth(c.text),
      byte_start |-> byte_start, byte_end |-> byte_start + TextLen(c.text) ]

\* the cell c of column col placed at start: the filename cell is stretched
\* to the stop column
PlaceCell(c, col, start, byte_start) ==
    LET end0 == start + TextWidth(c.text)
        bend0 == byte_start + TextLen(c.text)
        stop == IF col = "filename" /\ KSTOP - end0 > 0
                THEN KSTOP - end0 ELSE 0
    IN [ text |-> c.text, hl_group |-> c.hl_group,
         col_start |-> start, col_end |-> end0 + stop,
         byte_start |-> byte_start, byte_end |-> bend0 + stop ]

\* one row of make_cells: the cells of `fileitem`, one per configured column,
\* laid out left to right after the cells of `row`
RECURSIVE RowCells(_, _, _, _)
RowCells(t, fileitem, is_root, row) ==
    IF Len(row) >= Len(t.columns) THEN row
    ELSE RowCells(t, fileitem, is_root,
                  Append(row,
                         PlaceCell(ColumnCell_new(t, fileitem,
                                                  t.columns[Len(row) + 1], is_root),
                                   t.columns[Len(row) + 1],
                                   NextStart(t.columns, row, "col_end"),
                                   NextStart(t.columns, row, "byte_end"))))

\* the rows of `items` turned into one cell list per configured column
ByColumn(columns, rows) ==
    [ i \in 1..Len(columns) |-> [ k \in 1..Len(rows) |-> rows[k][i] ] ]

\* Tree::make_cells: r[i] is the cell list of the i-th configured column
make_cells(t, items, first_item_is_root) ==
    ByColumn(t.columns,
             [ k \in 1..Len(items) |->
                 RowCells(t, items[k], first_item_is_root /\ k = 1, << >>) ])

----------------------------------------------------------------------------
(* Splicing the node list and the cell lists.  Positions are 0-based as in *)
(* the source; At(s, i) is s[i].  An operation yields the tree it leaves   *)
(* and how it ended: "ok", "err" (it returned Err) or "panic" (an index or *)
(* slice out of range; what was written before the panic stays written).   *)

At(s, i) == s[i + 1]

\* Vec::splice(start..end, repl) and the slice s[start..end]
SpliceOk(s, start, end) == 0 <= start /\ start <= end /\ end <= Len(s)

Splice(s, start, end, repl) ==
    SubSeq(s, 1, start) \o repl \o SubSeq(s, end + 1, Len(s))

Slice(s, start, end) == SubSeq(s, start + 1, end)

\* col_map.entry(col): a column without a cell list gets an empty one
Entry(col_map, col) ==
    IF col \in DOMAIN col_map THEN col_map ELSE col_map @@ (col :> << >>)

\* for (col, cells) in cells { col_map.entry(col) ... .splice(sl..el, cells) }
\* from the i-th configured column on
RECURSIVE SpliceCells(_, _, _, _, _)
SpliceCells(t, cells, i, sl, el) ==
    IF i > Len(t.columns) THEN [ t |-> t, res |-> "ok" ]
    ELSE IF ~SpliceOk(Entry(t.col_map, t.columns[i])[t.columns[i]], sl, el)
    THEN [ t |-> [ t EXCEPT !.col_map = Entry(@, t.columns[i]) ], res |-> "panic" ]
    ELSE SpliceCells([ t EXCEPT !.col_map =
                                   [ Entry(@, t.columns[i]) EXCEPT
                                       ![t.columns[i]] = Splice(@, sl, el, cells[i]) ] ],
                     cells, i + 1, sl, el)

\* a single-row layout that treats every row it lays out as the root row
update_cells_Rooted(t, sl, el) ==
    IF ~SpliceOk(t.file_items, sl, el) THEN [ t |-> t, res |-> "panic" ]
    ELSE SpliceCells(t, make_cells(t, Slice(t.file_items, sl, el), TRUE), 1, sl, el)

\* Tree::update_cells
update_cells(t, sl, el) ==
    IF ~SpliceOk(t.file_items, sl, el) THEN [ t |-> t, res |-> "panic" ]
    ELSE SpliceCells(t, make_cells(t, Slice(t.file_items, sl, el), sl = 0), 1, sl, el)

\* the renumbering loop without the write of the id
RenumberFrom_KeepIds(t, i) == t

\* the loop `for i in from..file_items.len()` of both splicing operations:
\* a selected old id is replaced by the new position, then the id is rewritten
RECURSIVE RenumberFrom(_, _)
RenumberFrom(t, i) ==
    IF i >= Len(t.file_items) THEN t
    ELSE RenumberFrom(
             [ t EXCEPT !.selected_items =
                           IF At(t.file_items, i).id \in @
                           THEN (@ \ {At(t.file_items, i).id}) \cup {i}
                           ELSE @,
                        !.file_items[i + 1].id = i ],
             i + 1)

\* Tree::remove_items_and_cells.  The cell lists are spliced in the order of
\* the column types below (the source iterates the HashMap; the order only
\* shows when one of the lists is too short and the splice panics).
ColumnOrder == << "mark", "indent", "git", "icon", "filename", "size", "time" >>

RECURSIVE RemoveCells(_, _, _, _)
RemoveCells(t, i, start, end) ==
    IF i > Len(ColumnOrder) THEN [ t |-> t, res |-> "ok" ]
    ELSE IF ColumnOrder[i] \notin DOMAIN t.col_map
    THEN RemoveCells(t, i + 1, start, end)
    ELSE IF ~SpliceOk(t.col_map[ColumnOrder[i]], start, end)
    THEN [ t |-> t, res |-> "panic" ]
    ELSE RemoveCells([ t EXCEPT !.col_map[ColumnOrder[i]] = Splice(@, start, end, << >>) ],
                     i + 1, start, end)

\* the rest of remove_items_and_cells, after the cells were removed
RemoveItems(t, start, end) ==
    IF ~SpliceOk(t.file_items, start, end) THEN [ t |-> t, res |-> "panic" ]
    ELSE [ t |-> RenumberFrom(
                     [ t EXCEPT !.file_items = Splice(@, start, end, << >>),
                                !.selected_items = @ \ (start .. end - 1) ],
                     start),
           res |-> "ok" ]

\* the step runs on the tree r left, unless r failed or panicked
ThenRemoveItems(r, start, end) ==
    IF r.res # "ok" THEN r ELSE RemoveItems(r.t, start, end)

remove_items_and_cells(t, start, end) ==
    ThenRemoveItems(RemoveCells(t, 1, start, end), start, end)

\* the rest of insert_items_and_cells, after the nodes were inserted
InsertCells(t, pos, items) ==
    SpliceCells(t, make_cells(t, items, pos = 0), 1, pos, pos)

\* Tree::insert_items_and_cells
insert_items_and_cells(t, pos, items) ==
    IF pos > Len(t.file_items) THEN [ t |-> t, res |-> "err" ]
    ELSE InsertCells(
             RenumberFrom([ t EXCEPT !.file_items = Splice(@, pos, pos, items) ],
                          pos + Len(items)),
             pos, items)

\* Tree::makeline(i) for sl <= i < el and Tree::hl_lines(sl, el) index
\* col_map[col][i] for every configured column: they panic when a cell is missing
RenderOk(t, sl, el) ==
    \A i \in 1..Len(t.columns) :
        /\ t.columns[i] \in DOMAIN t.col_map
        /\ \A pos \in sl .. el - 1 : pos < Len(t.col_map[t.columns[i]])

Rendered(t, sl, el) ==
    [ t |-> t, res |-> IF RenderOk(t, sl, el) THEN "ok" ELSE "panic" ]

\* `r?; step`: the step runs on the tree r left, unless r failed or panicked
ThenUpdate(r, sl, el) == IF r.res # "ok" THEN r ELSE update_cells(r.t, sl, el)

ThenInsert(r, pos, items) ==
    IF r.res # "ok" THEN r ELSE insert_items_and_cells(r.t, pos, items)

ThenRender(r, sl, el) == IF r.res # "ok" THEN r ELSE Rendered(r.t, sl, el)

----------------------------------------------------------------------------
(* The operations of the Node Store *)

\* a descendant run that extends to the end of the list
RunEnd_ToEnd(file_items, end, base_level) == Len(file_items)

\* the end of the descendant run of the node at idx: the first position
\* after idx whose level is not greater than base_level
RECURSIVE RunEnd(_, _, _)
RunEnd(file_items, end, base_level) ==
    IF end >= Len(file_items) THEN end
    ELSE IF At(file_items, end).level <= base_level THEN end
    ELSE RunEnd(file_items, end + 1, base_level)

\* an open that forgets to mark the directory
Expanded_Forgotten(t, path) == t

\* expand_store.insert(path, true)
Expanded(t, path) ==
    [ t EXCEPT !.expand_store =
                  [ p \in DOMAIN @ \cup {path} |-> IF p = path THEN TRUE ELSE @[p] ] ]

\* Tree::change_root
change_root(t, w, path) ==
    IF ~is_dir(w.fs, path) THEN [ t |-> t, res |-> "ok" ]
    ELSE LET t1 == [ Expanded(t, path) EXCEPT !.col_map = << >>, !.file_items = << >> ]
             root == FileItem_new(path, 0)
             scan == entry_info_recursively_sync(t1, w, root, << root >>, 1)
         IN IF ~scan.ok THEN [ t |-> t1, res |-> "err" ]
            ELSE ThenRender(insert_items_and_cells(t1, 0, scan.items),
                            0, Len(scan.items))

\* an open_tree that inserts the children and leaves the expand store alone
open_tree_Unmarked(t, w, idx) ==
    IF idx = 0 THEN [ t |-> t, res |-> "ok" ]
    ELSE IF idx < 0 \/ idx >= Len(t.file_items) THEN [ t |-> t, res |-> "err" ]
    ELSE LET cur == At(t.file_items, idx)
         IN IF ~(cur.is_dir /\ ~is_item_opened(t, cur.path))
            THEN [ t |-> t, res |-> "ok" ]
            ELSE LET scan == entry_info_recursively_sync(t, w, cur, << >>, idx + 1)
                 IN IF ~scan.ok THEN [ t |-> t, res |-> "err" ]
                    ELSE ThenRender(
                             ThenInsert(update_cells(t, idx, idx + 1),
                                        idx + 1, scan.items),
                             idx, idx + 1 + Len(scan.items))

\* Tree::open_tree
open_tree(t, w, idx) ==
    IF idx = 0 THEN [ t |-> t, res |-> "ok" ]
    ELSE IF idx < 0 \/ idx >= Len(t.file_items) THEN [ t |-> t, res |-> "err" ]
    ELSE LET cur == At(t.file_items, idx)
         IN IF ~(cur.is_dir /\ ~is_item_opened(t, cur.path))
            THEN [ t |-> t, res |-> "ok" ]
            ELSE LET scan == entry_info_recursively_sync(t, w, cur, << >>, idx + 1)
                 IN IF ~scan.ok THEN [ t |-> t, res |-> "err" ]
                    ELSE ThenRender(
                             ThenInsert(
                                 update_cells(Expanded(t, cur.path), idx, idx + 1),
                                 idx + 1, scan.items),
                             idx, idx + 1 + Len(scan.items))

\* a close_tree without the early return for the root row
close_tree_AnyRow(t, idx) ==
    IF idx < 0 \/ idx >= Len(t.file_items) THEN [ t |-> t, res |-> "err" ]
    ELSE IF ~(At(t.file_items, idx).is_dir
              /\ is_item_opened(t, At(t.file_items, idx).path))
    THEN [ t |-> t, res |-> "ok" ]
    ELSE ThenRender(
             ThenUpdate(
                 remove_items_and_cells(
                     [ t EXCEPT !.expand_store =
                                   [ p \in DOMAIN @ \ {At(t.file_items, idx).path} |-> @[p] ] ],
                     idx + 1,
                     RunEnd(t.file_items, idx + 1, At(t.file_items, idx).level)),
                 idx, idx + 1),
             idx, idx + 1)

\* Tree::close_tree
close_tree(t, idx) ==
    IF idx = 0 THEN [ t |-> t, res |-> "ok" ]
    ELSE IF idx < 0 \/ idx >= Len(t.file_items) THEN [ t |-> t, res |-> "err" ]
    ELSE LET target == At(t.file_items, idx)
         IN IF ~(target.is_dir /\ is_item_opened(t, target.path))
            THEN [ t |-> t, res |-> "ok" ]
            ELSE ThenRender(
                     ThenUpdate(
                         remove_items_and_cells(
                             [ t EXCEPT !.expand_store =
                                           [ p \in DOMAIN @ \ {target.path} |-> @[p] ] ],
                             idx + 1, RunEnd(t.file_items, idx + 1, target.level)),
                         idx, idx + 1),
                     idx, idx + 1)

\* a forced branch that removes the descendants and scans nothing
Rescan_Nothing(t, w, cur, start) == [ t |-> t, res |-> "ok" ]

\* the forced branch of redraw_subtree, after the descendants were removed
Rescan(t, w, cur, start) ==
    LET scan == entry_info_recursively_sync(t, w, cur, << >>, cur.id + 1)
    IN IF ~scan.ok THEN [ t |-> t, res |-> "err" ]
       ELSE ThenRender(insert_items_and_cells(t, start, scan.items),
                       start, start + Len(scan.items))

ThenRescan(r, w, cur, start) ==
    IF r.res # "ok" THEN r ELSE Rescan(r.t, w, cur, start)

\* Tree::redraw_subtree
redraw_subtree(t, w, parent_idx, force) ==
    IF parent_idx < 0 \/ parent_idx >= Len(t.file_items)
    THEN [ t |-> t, res |-> "err" ]
    ELSE LET cur == At(t.file_items, parent_idx)
             start == cur.id + 1
         IN IF start > Len(t.file_items) THEN [ t |-> t, res |-> "panic" ]
            ELSE LET end == RunEnd(t.file_items, start, cur.level)
                 IN IF force
                    THEN ThenRescan(remove_items_and_cells(t, start, end),
                                    w, cur, start)
                    ELSE ThenRender(
                             SpliceCells(t, make_cells(t, Slice(t.file_items, start, end),
                                                       start = 0),
                                         1, start, end),
                             start, end)

----------------------------------------------------------------------------
(* The actions of Tree::action.  `idx` is `ctx.cursor as usize - 1`: for    *)
(* cursor 0 the subtraction overflows, which panics in a build with        *)
(* overflow checks and wraps to usize::MAX in a build without.  UsizeMax   *)
(* stands for usize::MAX: it is no position of any list, and adding 1 to   *)
(* it wraps to 0.                                                          *)

UsizeMax == 0 - 1

\* Vec::get(idx) is Some
InRange(t, idx) == 0 <= idx /\ idx < Len(t.file_items)

\* Tree::action_open_tree
action_open_tree(t, w, idx) == open_tree(t, w, idx)

\* Tree::action_close_tree
action_close_tree(t, idx) ==
    IF ~InRange(t, idx) THEN [ t |-> t, res |-> "err" ]
    ELSE LET target == At(t.file_items, idx)
         IN IF (target.is_dir /\ is_item_opened(t, target.path))
                 \/ target.parent # NoParent
            THEN close_tree(t, IF target.is_dir /\ is_item_opened(t, target.path)
                               THEN idx ELSE ParentItem(t, target).id)
            ELSE [ t |-> t, res |-> "ok" ]

\* Tree::action_open_or_close_tree
action_open_or_close_tree(t, w, idx) ==
    IF ~InRange(t, idx) THEN [ t |-> t, res |-> "err" ]
    ELSE LET target == At(t.file_items, idx)
         IN IF target.is_dir /\ is_item_opened(t, target.path)
            THEN close_tree(t, idx)
            ELSE open_tree(t, w, idx)

\* Tree::action_open_directory
action_open_directory(t, w, idx) ==
    IF ~InRange(t, idx) THEN [ t |-> t, res |-> "err" ]
    ELSE LET target == At(t.file_items, idx)
         IN IF target.is_dir /\ idx # 0
            THEN change_root(t, w, target.path)
            ELSE [ t |-> t, res |-> "ok" ]

\* Tree::action_drop (a file is handed to the editor: no state of the tree changes)
action_drop(t, w, idx) ==
    IF ~InRange(t, idx) THEN [ t |-> t, res |-> "err" ]
    ELSE LET cur == At(t.file_items, idx)
         IN IF cur.is_dir THEN change_root(t, w, cur.path)
            ELSE [ t |-> t, res |-> "ok" ]

\* no call of win.set_cursor
NoCursor == 0 - 1

\* the line change_root(path) hands to win.set_cursor when the rebuilt list
\* has n nodes: the line saved for the path, 0 when it is not below n
cursor_pos(t, path, n) ==
    IF path \notin DOMAIN t.cursor_history THEN NoCursor
    ELSE IF t.cursor_history[path] >= n THEN 0
    ELSE t.cursor_history[path]

\* Tree::save_cursor
save_cursor(t, cursor) ==
    IF Len(t.file_items) > 0
    THEN [ t EXCEPT !.cursor_history =
                       [ p \in DOMAIN @ \cup {t.file_items[1].path} |->
                           IF p = t.file_items[1].path THEN cursor ELSE @[p] ] ]
    ELSE t

\* Tree::action_cd with args[0] = dir: "..", "." or a path
action_cd(t, w, dir, cursor) ==
    LET t1 == save_cursor(t, cursor)
    IN IF dir = ".." /\ Len(t1.file_items) = 0 THEN [ t |-> t1, res |-> "panic" ]
       ELSE IF dir = ".." /\ t1.file_items[1].path = RootDir
       THEN [ t |-> t1, res |-> "ok" ]
       ELSE IF dir = "."
       THEN IF ~InRange(t1, cursor - 1) THEN [ t |-> t1, res |-> "err" ]
            ELSE [ t |-> t1, res |-> "ok" ]
       ELSE change_root(t1, w, IF dir = ".." THEN ParentPath(t1.file_items[1].path)
                               ELSE dir)

\* Tree::action_redraw
action_redraw(t, w) == redraw_subtree(t, w, 0, TRUE)

\* Tree::action_show_ignored
action_show_ignored(t, w) ==
    redraw_subtree([ t EXCEPT !.show_ignored_files = ~@ ], w, 0, TRUE)

\* the files committed in the repository whose work directory is RootDir;
\* f is in the work directory and was never added
Committed == { <<"a", "c", "x">>, <<".h">> }

\* repo.statuses(None): the files that are new in, or deleted from, the work
\* directory, each with its Status
statuses(fsys) ==
    { << p, "WT_NEW" >> : p \in { q \in fsys : ~IsDirPath(q) } \ Committed }
      \cup { << p, "WT_DELETED" >> : p \in Committed \ fsys }

\* Tree::init_git_repo: Repository::discover finds the repository of RootDir
\* from every path
init_git_repo(t, path) == [ t EXCEPT !.git_repo = TRUE ]

\* Tree::update_git_map; `self.file_items[0]` panics on an empty node list
update_git_map(t, w) ==
    IF ~t.git_repo /\ Len(t.file_items) = 0 THEN [ t |-> t, res |-> "panic" ]
    ELSE LET t1 == IF ~t.git_repo THEN init_git_repo(t, At(t.file_items, 0).path)
                   ELSE t
         IN [ t |-> [ t1 EXCEPT !.git_map = statuses(w.fs) ], res |-> "ok" ]

\* Tree::action_update_git_map
action_update_git_map(t, w) ==
    IF ~(\E k \in 1 .. Len(t.columns) : t.columns[k] = "git")
    THEN [ t |-> t, res |-> "ok" ]
    ELSE LET r == update_git_map(t, w)
         IN IF r.res # "ok" THEN r ELSE redraw_subtree(r.t, w, 0, FALSE)

\* a toggle that selects the row and drops every other entry
action_toggle_select_Single(t, idx) ==
    ThenRender(update_cells([ t EXCEPT !.selected_items =
                                          IF idx \in @ THEN {} ELSE {idx} ],
                            idx, idx + 1),
               idx, idx + 1)

\* Tree::action_toggle_select
action_toggle_select(t, idx) ==
    ThenRender(update_cells([ t EXCEPT !.selected_items =
                                          IF idx \in @ THEN @ \ {idx} ELSE @ \cup {idx} ],
                            idx, idx + 1),
               idx, idx + 1)

\* Tree::action_clear_select_all
action_clear_select_all(t, w) ==
    redraw_subtree([ t EXCEPT !.selected_items = {} ], w, 0, FALSE)

\* Tree::action_toggle_select_all
action_toggle_select_all(t, w) ==
    redraw_subtree(
        [ t EXCEPT !.selected_items =
                      (@ \ (0 .. Len(t.file_items) - 1))
                        \cup ((0 .. Len(t.file_items) - 1) \ @) ],
        w, 0, FALSE)

----------------------------------------------------------------------------
(* Actions that change the filesystem or the clipboard.  They yield, besides *)
(* the tree and the result, the filesystem (fs) or the clipboard they leave. *)

\* what the user typed at a tree#util#input prompt: an absolute path, a
\* relative one, or nothing (abs = FALSE, comps = << >>)
NoInput == [ abs |-> FALSE, comps |-> << >> ]

AbsInput(p) == [ abs |-> TRUE, comps |-> p ]

RelInput(name) == [ abs |-> FALSE, comps |-> << name >> ]

\* PathBuf::join / PathBuf::push: an absolute argument replaces the base
Join(base, input) == IF input.abs THEN input.comps ELSE base \o input.comps

\* std::fs::rename(old, new) succeeds: an existing file is replaced by a
\* file, an existing empty directory by a directory
RenameOk(fsys, old, new) ==
    /\ exists(fsys, old) /\ old # RootDir /\ new # RootDir
    /\ is_dir(fsys, ParentPath(new))
    /\ ~IsPrefix(old, new) \/ old = new
    /\ exists(fsys, new) /\ old # new =>
         /\ IsDirPath(new) = IsDirPath(old)
         /\ \A q \in fsys : IsPrefix(new, q) => q = new

RenamePath(fsys, old, new) ==
    { IF IsPrefix(old, q) THEN new \o SubSeq(q, Len(old) + 1, Len(q)) ELSE q :
        q \in fsys }

\* std::fs::remove_dir_all / remove_file
RemovePath(fsys, p) == { q \in fsys : ~IsPrefix(p, q) }

\* self.redraw_subtree(idx, true) after the filesystem was changed to w.fs
WithFs(r, fsys) == [ t |-> r.t, res |-> r.res, fs |-> fsys ]

Redrawn(t, w, idx) == WithFs(redraw_subtree(t, w, idx, TRUE), w.fs)

\* a rename that does not look whether the destination exists
action_rename_Overwriting(t, w, idx, new_filename) ==
    IF ~InRange(t, idx) THEN [ t |-> t, res |-> "panic", fs |-> w.fs ]
    ELSE LET cur == At(t.file_items, idx)
             new_path == Join(cur.path, new_filename)
         IN IF new_filename = NoInput \/ new_path = cur.path
            THEN [ t |-> t, res |-> "ok", fs |-> w.fs ]
            ELSE IF ~RenameOk(w.fs, cur.path, new_path)
            THEN [ t |-> t, res |-> "err", fs |-> w.fs ]
            ELSE Redrawn(t, [ w EXCEPT !.fs = RenamePath(@, cur.path, new_path) ], 0)

\* Tree::action_rename
action_rename(t, w, idx, new_filename) ==
    IF ~InRange(t, idx) THEN [ t |-> t, res |-> "panic", fs |-> w.fs ]
    ELSE LET cur == At(t.file_items, idx)
             new_path == Join(cur.path, new_filename)
         IN IF new_filename = NoInput \/ new_path = cur.path
            THEN [ t |-> t, res |-> "ok", fs |-> w.fs ]
            ELSE IF exists(w.fs, new_path)
            THEN [ t |-> t, res |-> "err", fs |-> w.fs ]
            ELSE IF ~RenameOk(w.fs, cur.path, new_path)
            THEN [ t |-> t, res |-> "err", fs |-> w.fs ]
            ELSE Redrawn(t, [ w EXCEPT !.fs = RenamePath(@, cur.path, new_path) ], 0)

\* a path with the directories above it
Prefixes(p) == { SubSeq(p, 1, n) : n \in 0 .. Len(p) }

\* std::fs::create_dir(filename) for a directory; for a file
\* create_dir_all(parent), which makes the missing directories above it,
\* and File::create(filename)
CanCreate(fsys, filename) ==
    IF IsDirPath(filename) THEN is_dir(fsys, ParentPath(filename))
    ELSE \A q \in Prefixes(ParentPath(filename)) : q \in fsys => IsDirPath(q)

\* Tree::action_new_file; a name of DirNames is typed with a trailing '/'
\* and makes a directory
action_new_file(t, w, idx, new_filename) ==
    IF ~InRange(t, idx) THEN [ t |-> t, res |-> "panic", fs |-> w.fs ]
    ELSE LET cur == At(t.file_items, idx)
             own == is_item_opened(t, cur.path) \/ idx = 0
             idx_to_redraw == IF own THEN idx ELSE ParentItem(t, cur).id
             cwd == IF own THEN cur.path ELSE ParentItem(t, cur).path
             filename == Join(cwd, new_filename)
         IN IF ~own /\ cur.parent = NoParent
            THEN [ t |-> t, res |-> "err", fs |-> w.fs ]
            ELSE IF exists(w.fs, filename)
            THEN [ t |-> t, res |-> "err", fs |-> w.fs ]
            ELSE IF ~CanCreate(w.fs, filename)
            THEN [ t |-> t, res |-> "err", fs |-> w.fs ]
            ELSE Redrawn(t, [ w EXCEPT !.fs = @ \cup Prefixes(filename) ],
                         idx_to_redraw)

\* the loop `for target in targets` of action_remove, in the order `paths`
RECURSIVE RemoveTargets(_, _)
RemoveTargets(fsys, paths) ==
    IF paths = << >> THEN [ fs |-> fsys, ok |-> TRUE ]
    ELSE IF ~exists(fsys, Head(paths)) THEN [ fs |-> fsys, ok |-> FALSE ]
    ELSE RemoveTargets(RemovePath(fsys, Head(paths)), Tail(paths))

\* the targets of remove, copy, move and yank_path: the selected rows in the
\* order `order` (the iteration order of the HashSet), else the cursor row
TargetIdxs(t, idx, order) ==
    IF t.selected_items = {} THEN << idx >> ELSE order

TargetsOk(t, idx, order) ==
    \A k \in 1..Len(TargetIdxs(t, idx, order)) :
        InRange(t, TargetIdxs(t, idx, order)[k])

TargetPaths(t, idx, order) ==
    [ k \in 1..Len(TargetIdxs(t, idx, order)) |->
        At(t.file_items, TargetIdxs(t, idx, order)[k]).path ]

\* Tree::action_remove; `confirmed` is the force argument or the user's Yes
action_remove(t, w, idx, order, confirmed) ==
    IF ~TargetsOk(t, idx, order) THEN [ t |-> t, res |-> "panic", fs |-> w.fs ]
    ELSE IF ~confirmed THEN [ t |-> t, res |-> "ok", fs |-> w.fs ]
    ELSE LET d == RemoveTargets(w.fs, TargetPaths(t, idx, order))
         IN IF ~d.ok THEN [ t |-> t, res |-> "err", fs |-> d.fs ]
            ELSE Redrawn(t, [ w EXCEPT !.fs = d.fs ], 0)

\* Tree::action_yank_path
action_yank_path(t, idx, order) ==
    IF ~TargetsOk(t, idx, order) THEN [ t |-> t, res |-> "panic" ]
    ELSE [ t |-> t, res |-> "ok" ]

\* the paths pushed to the clipboard before an index of `idxs` panics
RECURSIVE PathsUntilPanic(_, _)
PathsUntilPanic(t, idxs) ==
    IF idxs = << >> \/ ~InRange(t, Head(idxs)) THEN << >>
    ELSE << At(t.file_items, Head(idxs)).path >> \o PathsUntilPanic(t, Tail(idxs))

\* Tree::action_copy and Tree::action_move (mode is "COPY" or "MOVE"):
\* CLIPBOARD_MODE is written, then copy_or_move clears and fills CLIPBOARD
copy_or_move(t, idx, order, mode) ==
    [ t |-> t,
      res |-> IF TargetsOk(t, idx, order) THEN "ok" ELSE "panic",
      clipboard |-> PathsUntilPanic(t, TargetIdxs(t, idx, order)),
      clipboard_mode |-> mode ]

\* Tree::func_paste
func_paste(t, w, idx, mode, src, dest) ==
    IF ~exists(w.fs, src) THEN [ t |-> t, res |-> "panic", fs |-> w.fs ]
    ELSE IF mode = "COPY"
    THEN IF IsDirPath(src) \/ ~is_dir(w.fs, ParentPath(dest)) \/ is_dir(w.fs, dest)
         THEN [ t |-> t, res |-> "err", fs |-> w.fs ]
         ELSE IF ~InRange(t, idx)
         THEN [ t |-> t, res |-> "panic", fs |-> w.fs \cup { dest } ]
         ELSE Redrawn(t, [ w EXCEPT !.fs = @ \cup { dest } ],
                      IF At(t.file_items, idx).parent # NoParent
                      THEN ParentItem(t, At(t.file_items, idx)).id ELSE 0)
    ELSE IF ~RenameOk(w.fs, src, dest)
         THEN [ t |-> t, res |-> "err", fs |-> w.fs ]
         ELSE Redrawn(t, [ w EXCEPT !.fs = RenamePath(@, src, dest) ], 0)

\* Tree::action_paste: the loop over the clipboard from item k on.  An item
\* whose destination exists is handed to tree.pre_paste (the editor asks the
\* user and may send _tree_async_func "paste" later).
RECURSIVE PasteItems(_, _, _, _, _, _)

\* `self.func_paste(...).await?`: the loop goes on from item k on the tree
\* and the filesystem r left, unless r failed or panicked
ThenPasteItems(r, w, idx, clipboard, mode, k) ==
    IF r.res # "ok" THEN r
    ELSE PasteItems(r.t, [ w EXCEPT !.fs = r.fs ], idx, clipboard, mode, k)

PasteItems(t, w, idx, clipboard, mode, k) ==
    IF k > Len(clipboard) THEN [ t |-> t, res |-> "ok", fs |-> w.fs ]
    ELSE LET item == clipboard[k]
         IN IF ~exists(w.fs, item)
            THEN PasteItems(t, w, idx, clipboard, mode, k + 1)
            ELSE IF ~InRange(t, idx) \/ At(t.file_items, idx).path = RootDir
                    \/ item = RootDir
            THEN [ t |-> t, res |-> "panic", fs |-> w.fs ]
            ELSE LET dest_file == ParentPath(At(t.file_items, idx).path)
                                    \o << FileName(item) >>
                 IN IF exists(w.fs, dest_file)
                    THEN PasteItems(t, w, idx, clipboard, mode, k + 1)
                    ELSE ThenPasteItems(func_paste(t, w, idx, mode, item, dest_file),
                                        w, idx, clipboard, mode, k + 1)

action_paste(t, w, idx, clipboard, mode) ==
    PasteItems(t, w, idx, clipboard, mode, 1)

----------------------------------------------------------------------------
(* State *)

VARIABLES
    fs,             \* the paths that exist on the filesystem
    unreadable,     \* the directories whose read_dir fails
    fs_ops,         \* number of filesystem changes made so far
    cfg_ops,        \* number of configuration updates made so far
    registered,     \* the buffer has a Tree in bufnr_to_tree
    tree,           \* that Tree: file_items, selected_items, expand_store, col_map,
                    \* config.columns, config.show_ignored_files, cursor_history
    clipboard,      \* CLIPBOARD
    clipboard_mode, \* CLIPBOARD_MODE
    lock,           \* the RwLock around TreeHandlerData: its writer and readers
    task,           \* the handler tasks: what each was called for and where it is
    surface,        \* the requests the editor has applied to the buffer, in order
    detached,       \* the requests of spawned tasks that are still to be sent
    prev_bufnr,     \* TreeHandlerData::prev_bufnr
    singleton       \* the Singleton of main.rs: its Mutex, its inner value and
                    \* the threads that called take_for

vars ==
    << fs, unreadable, fs_ops, cfg_ops, registered, tree, clipboard, clipboard_mode,
       lock, task, surface, detached, prev_bufnr, singleton >>

\* Option<Value> of a buffer number: None, and the number of the one buffer
NoBuf == "None"

Bufnr == "bufnr"

\* the handler tasks that may be in flight together
Tasks == 1 .. NumTasks

NoTask == 0

\* the threads that call Singleton::take_for
Threads == 1 .. NumThreads

\* Config::default().root_marker
RootMarker == "[in]: "

World == [ fs |-> fs, unreadable |-> unreadable ]

\* Tree::new
Tree_new ==
    [ file_items |-> << >>, selected_items |-> {}, expand_store |-> << >>,
      col_map |-> << >>, columns |-> DefaultColumns,
      show_ignored_files |-> FALSE, root_marker |-> RootMarker,
      cursor_history |-> << >>, git_repo |-> FALSE, git_map |-> {} ]

\* Config::update with "columns" = the names of `columns` joined by ':'
Config_update(t, columns) == [ t EXCEPT !.columns = columns ]

\* TreeHandlerData::default() of main.rs: cfg_map without the key "new" and
\* resource without the key "start_path"
TreeHandlerData_default == [ new |-> "None", start_path |-> FALSE ]

\* Singleton::new: an unlocked Mutex around the data; no thread is in take_for
Singleton_new ==
    [ lock   |-> NoTask,
      inner  |-> TreeHandlerData_default,
      thread |-> [ i \in Threads |-> [ f |-> "none", pc |-> "idle", raced |-> FALSE ] ] ]

Init ==
    /\ fs = InitFs
    /\ unreadable = {}
    /\ fs_ops = 0
    /\ cfg_ops = 0
    /\ registered = FALSE
    /\ tree = Tree_new
    /\ clipboard = << >>
    /\ clipboard_mode = "COPY"
    /\ lock = [ writer |-> NoTask, readers |-> {} ]
    /\ task = [ i \in Tasks |-> [ kind |-> "none", pc |-> "idle" ] ]
    /\ surface = << >>
    /\ detached = {}
    /\ prev_bufnr = NoBuf
    /\ singleton = Singleton_new

----------------------------------------------------------------------------
(* Steps.  One buffer is modelled: create_tree puts its Tree in             *)
(* bufnr_to_tree, and Tree::action dispatches the actions on it.  A failed  *)
(* action is logged and a panicking one ends its task; either way the Tree  *)
(* keeps what the action had written by then.                               *)

\* the paths handed to _tree_start: the directories, a file, a missing path
StartPaths == AllDirs \cup { << "f" >>, << "y" >> }

\* the line numbers the editor may report
Cursors == 0 .. Len(tree.file_items) + CursorSlack

\* ctx.cursor as usize - 1, where the subtraction wraps
CursorIdx(cursor) == IF cursor = 0 THEN UsizeMax ELSE cursor - 1

TreeStep(r) ==
    /\ tree' = r.t
    /\ UNCHANGED << singleton, prev_bufnr, fs, unreadable, fs_ops, cfg_ops, registered, clipboard, clipboard_mode, lock, task, surface, detached >>

\* create_tree: `tree.change_root(path, &nvim).await?` and then
\* `data.bufnr_to_tree.insert(bufnr, tree)` and `data.prev_bufnr = Some(bufnr)`
Insert(r) ==
    IF r.res = "ok"
    THEN registered' = TRUE /\ tree' = r.t /\ prev_bufnr' = Bufnr
    ELSE UNCHANGED << registered, tree, prev_bufnr >>

\* TreeHandler::create_tree (_tree_start with a bufnr)
CreateTree(path, columns) ==
    /\ Insert(change_root(Config_update(Tree_new, columns), World, path))
    /\ UNCHANGED << singleton, fs, unreadable, fs_ops, cfg_ops, clipboard, clipboard_mode, lock, task, surface, detached >>

\* TreeHandler::start_tree without a bufnr: the context of _tree_start is
\* applied to the configuration of the tree of prev_bufnr
StartTree(columns) ==
    /\ prev_bufnr = Bufnr
    /\ registered
    /\ cfg_ops < MaxCfgOps
    /\ cfg_ops' = cfg_ops + 1
    /\ tree' = Config_update(tree, columns)
    /\ UNCHANGED << singleton, prev_bufnr, fs, unreadable, fs_ops, registered, clipboard, clipboard_mode, lock, task, surface, detached >>

\* an action called with cursor 0 in a build with overflow checks: the
\* subtraction `ctx.cursor as usize - 1` panics before anything is written
CursorOverflow ==
    /\ registered
    /\ UNCHANGED vars

ActionOpenTree(cursor) ==
    registered /\ TreeStep(action_open_tree(tree, World, CursorIdx(cursor)))

ActionCloseTree(cursor) ==
    registered /\ TreeStep(action_close_tree(tree, CursorIdx(cursor)))

ActionOpenOrCloseTree(cursor) ==
    registered /\ TreeStep(action_open_or_close_tree(tree, World, CursorIdx(cursor)))

ActionOpenDirectory(cursor) ==
    registered /\ TreeStep(action_open_directory(tree, World, CursorIdx(cursor)))

ActionDrop(cursor) ==
    registered /\ TreeStep(action_drop(tree, World, CursorIdx(cursor)))

ActionCd(dir, cursor) ==
    registered /\ TreeStep(action_cd(tree, World, dir, cursor))

ActionRedraw ==
    registered /\ TreeStep(action_redraw(tree, World))

ActionShowIgnored ==
    registered /\ TreeStep(action_show_ignored(tree, World))

ActionToggleSelect(cursor) ==
    /\ registered
    /\ Cardinality(tree.selected_items) < MaxSelected
         \/ CursorIdx(cursor) \in tree.selected_items
    /\ TreeStep(action_toggle_select(tree, CursorIdx(cursor)))

ActionToggleSelectAll ==
    registered /\ TreeStep(action_toggle_select_all(tree, World))

ActionClearSelectAll ==
    registered /\ TreeStep(action_clear_select_all(tree, World))

\* the environment: a directory loses or regains its read permission
ChmodDirs == { << "a" >> }

Chmod(dir) ==
    /\ unreadable' = IF dir \in unreadable THEN unreadable \ {dir}
                     ELSE unreadable \cup {dir}
    /\ UNCHANGED << singleton, prev_bufnr, fs, fs_ops, cfg_ops, registered, tree, clipboard, clipboard_mode, lock, task, surface, detached >>

Next ==
    \/ \E path \in StartPaths : CreateTree(path, DefaultColumns)
    \/ CursorOverflow
    \/ \E cursor \in Cursors : ActionOpenTree(cursor)
    \/ \E cursor \in Cursors : ActionCloseTree(cursor)
    \/ \E cursor \in Cursors : ActionOpenOrCloseTree(cursor)
    \/ \E cursor \in Cursors : ActionOpenDirectory(cursor)
    \/ \E cursor \in Cursors : ActionDrop(cursor)
    \/ \E cursor \in 1 .. MaxCdCursor : ActionCd("..", cursor)
    \/ ActionRedraw
    \/ ActionShowIgnored
    \/ \E dir \in ChmodDirs : Chmod(dir)

NextSelect ==
    \/ \E path \in StartPaths : CreateTree(path, DefaultColumns)
    \/ \E cursor \in Cursors : ActionOpenTree(cursor)
    \/ \E cursor \in Cursors : ActionCloseTree(cursor)
    \/ \E cursor \in Cursors : ActionOpenDirectory(cursor)
    \/ \E cursor \in Cursors : ActionToggleSelect(cursor)
    \/ ActionToggleSelectAll
    \/ ActionClearSelectAll

Spec == Init /\ [][Next]_vars

SpecSelect == Init /\ [][NextSelect]_vars

\* the column list a tree is created with, and the lists _tree_start
\* configures later
CreateColumns == << "filename" >>

ColumnLists == { << "filename" >>, << "mark", "filename" >> }

NextConfig ==
    \/ \E path \in StartPaths : CreateTree(path, CreateColumns)
    \/ \E columns \in ColumnLists : StartTree(columns)
    \/ \E cursor \in Cursors : ActionOpenTree(cursor)
    \/ \E cursor \in Cursors : ActionCloseTree(cursor)
    \/ \E cursor \in Cursors : ActionToggleSelect(cursor)
    \/ ActionRedraw

SpecConfig == Init /\ [][NextConfig]_vars

----------------------------------------------------------------------------
(* Steps that change the filesystem or the clipboard *)

\* the orders in which a HashSet of indices may be iterated
RECURSIVE Orders(_)
Orders(S) ==
    IF S = {} THEN { << >> }
    ELSE UNION { { << x >> \o s : s \in Orders(S \ {x}) } : x \in S }

\* what the user types at the prompt of rename and new_file
Inputs == { NoInput, RelInput("y"), AbsInput(<< "y" >>), AbsInput(<< "f" >>) }

\* an action that leaves the tree r.t and the filesystem r.fs
FsStep(r) ==
    /\ r.fs = fs \/ fs_ops < MaxFsOps
    /\ tree' = r.t
    /\ fs' = r.fs
    /\ fs_ops' = IF r.fs = fs THEN fs_ops ELSE fs_ops + 1
    /\ UNCHANGED << singleton, prev_bufnr, unreadable, cfg_ops, registered, clipboard, clipboard_mode, lock, task, surface, detached >>

ActionRename(cursor, input) ==
    registered /\ FsStep(action_rename(tree, World, CursorIdx(cursor), input))

ActionNewFile(cursor, input) ==
    registered /\ FsStep(action_new_file(tree, World, CursorIdx(cursor), input))

ActionRemove(cursor, confirmed) ==
    /\ registered
    /\ \E order \in Orders(tree.selected_items) :
         FsStep(action_remove(tree, World, CursorIdx(cursor), order, confirmed))

\* action_copy (mode "COPY") and action_move (mode "MOVE")
ActionCopyOrMove(cursor, mode) ==
    /\ registered
    /\ \E order \in Orders(tree.selected_items) :
         /\ clipboard' = copy_or_move(tree, CursorIdx(cursor), order, mode).clipboard
         /\ clipboard_mode' = mode
         /\ UNCHANGED << singleton, prev_bufnr, fs, unreadable, fs_ops, cfg_ops, registered, tree, lock, task, surface, detached >>

ActionPaste(cursor) ==
    /\ registered
    /\ FsStep(action_paste(tree, World, CursorIdx(cursor), clipboard, clipboard_mode))

ActionYankPath(cursor) ==
    /\ registered
    /\ \E order \in Orders(tree.selected_items) :
         TreeStep(action_yank_path(tree, CursorIdx(cursor), order))

NextFs ==
    \/ \E path \in StartPaths : CreateTree(path, DefaultColumns)
    \/ \E cursor \in Cursors : ActionOpenTree(cursor)
    \/ \E cursor \in Cursors : ActionCloseTree(cursor)
    \/ \E cursor \in Cursors, input \in Inputs : ActionRename(cursor, input)
    \/ \E cursor \in Cursors, input \in Inputs : ActionNewFile(cursor, input)
    \/ \E cursor \in Cursors, confirmed \in BOOLEAN : ActionRemove(cursor, confirmed)
    \/ \E cursor \in Cursors, mode \in { "COPY", "MOVE" } :
          ActionCopyOrMove(cursor, mode)
    \/ \E cursor \in Cursors : ActionPaste(cursor)
    \/ \E cursor \in Cursors : ActionYankPath(cursor)

SpecFs == Init /\ [][NextFs]_vars

ActionUpdateGitMap ==
    registered /\ TreeStep(action_update_git_map(tree, World))

\* the git overlay: the tree is built, the map is refreshed on request, and
\* actions change the work directory and force redraws
NextGit ==
    \/ \E path \in StartPaths : CreateTree(path, DefaultColumns)
    \/ ActionUpdateGitMap
    \/ ActionRedraw
    \/ ActionShowIgnored
    \/ \E cursor \in Cursors, input \in Inputs : ActionRename(cursor, input)
    \/ \E cursor \in Cursors, input \in Inputs : ActionNewFile(cursor, input)
    \/ \E cursor \in Cursors, confirmed \in BOOLEAN : ActionRemove(cursor, confirmed)

SpecGit == Init /\ [][NextGit]_vars

----------------------------------------------------------------------------
(* The handler.  nvim-rs runs handle_request and handle_notify of every     *)
(* message in a task of its own; the tasks share TreeHandlerData behind    *)
(* one RwLock.  A task is called for a kind of message and moves           *)
(* called -> locked -> ran -> idle (a writer) or called -> reading -> idle *)
(* (a reader); between locked and idle its guard `d` is alive.             *)

\* a write() that returns although guards are alive
CanWrite_Always(lk) == TRUE

\* RwLock::write().await returns: no guard is alive
CanWrite(lk) == lk.writer = NoTask /\ lk.readers = {}

\* RwLock::read().await returns: no write guard is alive
CanRead(lk) == lk.writer = NoTask

\* the messages the handler knows
Kinds == { "_tree_async_action", "_tree_start", "_tree_get_candidate",
           "_tree_async_func" }

At_(i, pc) == task[i].pc = pc

Move(i, kind, pc) == task' = [ task EXCEPT ![i] = [ kind |-> kind, pc |-> pc ] ]

\* a message arrives and its handler starts in task i
Receive(i, kind) ==
    /\ At_(i, "idle")
    /\ Move(i, kind, "called")
    /\ UNCHANGED << singleton, prev_bufnr, fs, unreadable, fs_ops, cfg_ops, registered, tree, clipboard,
                    clipboard_mode, lock, surface, detached >>

\* handle_notify "_tree_async_action" and handle_request "_tree_start":
\* `self.data.write().await`
AcquireWrite(i) ==
    /\ At_(i, "called")
    /\ task[i].kind \in { "_tree_async_action", "_tree_start" }
    /\ CanWrite(lock)
    /\ lock' = [ lock EXCEPT !.writer = i ]
    /\ Move(i, task[i].kind, "locked")
    /\ UNCHANGED << singleton, prev_bufnr, fs, unreadable, fs_ops, cfg_ops, registered, tree, clipboard,
                    clipboard_mode, surface, detached >>

\* Context::default()
Context_default == [ cursor |-> 0, prev_bufnr |-> NoBuf ]

\* Context::update: "cursor" (and the visual range, left out here) is taken,
\* every other key is an unsupported member
Context_update(ctx, key, val) ==
    IF key = "cursor" THEN [ ctx EXCEPT !.cursor = val ] ELSE ctx

\* the context handle_notify builds from the map the editor sends with an
\* action: the cursor line and the number of the tree's buffer
MessageContext(cursor) ==
    Context_update(Context_update(Context_default, "cursor", cursor),
                   "prev_bufnr", Bufnr)

\* handle_notify "_tree_async_action" under the write guard:
\* `d.prev_bufnr = ctx.prev_bufnr.clone()`, then tree.action on the tree of
\* ctx.prev_bufnr, if there is one; the action is open_or_close_tree
RunAction(i, cursor) ==
    /\ At_(i, "locked")
    /\ task[i].kind = "_tree_async_action"
    /\ prev_bufnr' = MessageContext(cursor).prev_bufnr
    /\ tree' = IF registered /\ MessageContext(cursor).prev_bufnr = Bufnr
               THEN action_open_or_close_tree(
                        tree, World, CursorIdx(MessageContext(cursor).cursor)).t
               ELSE tree
    /\ Move(i, task[i].kind, "ran")
    /\ UNCHANGED << singleton, fs, unreadable, fs_ops, cfg_ops, registered, clipboard,
                    clipboard_mode, lock, surface, detached >>

\* handle_request "_tree_start" with a bufnr: start_tree -> create_tree
RunStart(i, path) ==
    /\ At_(i, "locked")
    /\ task[i].kind = "_tree_start"
    /\ Insert(change_root(Tree_new, World, path))
    /\ Move(i, task[i].kind, "ran")
    /\ UNCHANGED << singleton, fs, unreadable, fs_ops, cfg_ops, clipboard, clipboard_mode, lock, surface, detached >>

\* the end of the block that holds the write guard
ReleaseWrite(i) ==
    /\ At_(i, "ran")
    /\ lock' = [ lock EXCEPT !.writer = NoTask ]
    /\ Move(i, "none", "idle")
    /\ UNCHANGED << singleton, prev_bufnr, fs, unreadable, fs_ops, cfg_ops, registered, tree, clipboard,
                    clipboard_mode, surface, detached >>

\* handle_request "_tree_get_candidate": `self.data.read().await`
AcquireRead(i) ==
    /\ At_(i, "called")
    /\ task[i].kind = "_tree_get_candidate"
    /\ CanRead(lock)
    /\ lock' = [ lock EXCEPT !.readers = @ \cup {i} ]
    /\ Move(i, task[i].kind, "reading")
    /\ UNCHANGED << singleton, prev_bufnr, fs, unreadable, fs_ops, cfg_ops, registered, tree, clipboard,
                    clipboard_mode, surface, detached >>

\* tree.get_context_value(cursor) is returned (or its unwrap panics) and the
\* read guard is dropped
Reply(i) ==
    /\ At_(i, "reading")
    /\ lock' = [ lock EXCEPT !.readers = @ \ {i} ]
    /\ Move(i, "none", "idle")
    /\ UNCHANGED << singleton, prev_bufnr, fs, unreadable, fs_ops, cfg_ops, registered, tree, clipboard,
                    clipboard_mode, surface, detached >>

\* handle_notify "_tree_async_func": args[0] was replaced by Nil (or is no
\* array and the handler returns), so `args[0].as_str().unwrap()` panics
\* and the task ends before `self.data.write()`: func_paste is never called
AsyncFuncEnds(i) ==
    /\ At_(i, "called")
    /\ task[i].kind = "_tree_async_func"
    /\ Move(i, "none", "idle")
    /\ UNCHANGED << singleton, prev_bufnr, fs, unreadable, fs_ops, cfg_ops, registered, tree, clipboard,
                    clipboard_mode, lock, surface, detached >>

NextHandler ==
    \/ \E i \in Tasks, kind \in Kinds : Receive(i, kind)
    \/ \E i \in Tasks : AcquireWrite(i)
    \/ \E i \in Tasks, cursor \in 1 .. 2 : RunAction(i, cursor)
    \/ \E i \in Tasks, path \in { RootDir, << "a" >> } : RunStart(i, path)
    \/ \E i \in Tasks : ReleaseWrite(i)
    \/ \E i \in Tasks : AcquireRead(i)
    \/ \E i \in Tasks : Reply(i)
    \/ \E i \in Tasks : AsyncFuncEnds(i)

SpecHandler == Init /\ [][NextHandler]_vars

----------------------------------------------------------------------------
(* Properties of the Node Store *)

\* every node's id is its position in the node list
IdsArePositions(t) ==
    \A i \in 0 .. Len(t.file_items) - 1 : At(t.file_items, i).id = i



\* C1: after any sequence of open_tree, close_tree, change_root and forced
\* redraw_subtree the node at position i of the node list has id i
C1_IdsArePositions == IdsArePositions(tree)

\* a directory below the root is expanded and nodes follow its descendants:
\* nodes were inserted in the middle of the list and the rest renumbered
C1_Witness ==
    \E i \in 1 .. Len(tree.file_items) - 2 :
        /\ At(tree.file_items, i).level = 0
        /\ At(tree.file_items, i + 1).level = 1
        /\ At(tree.file_items, Len(tree.file_items) - 1).level = 0

\* the cell list of a column (a column without an entry has no cells)
CellsOf(t, col) == IF col \in DOMAIN t.col_map THEN t.col_map[col] ELSE << >>

\* C2: at all times, also after a column-list update applied to a built
\* tree, every configured column has a cell list as long as the node list
C2_CellsMatchNodes ==
    \A i \in 1 .. Len(tree.columns) :
        Len(CellsOf(tree, tree.columns[i])) = Len(tree.file_items)

\* the selected indices after k nodes were inserted at position p
ShiftedUp(selected, p, k) == { IF i >= p THEN i + k ELSE i : i \in selected }

\* the selected indices after the k nodes at position p were removed
ShiftedDown(selected, p, k) ==
    { IF i >= p + k THEN i - k ELSE i : i \in selected \ (p .. p + k - 1) }

\* the selection addresses nodes of the list
SelectionInList(t) == t.selected_items \subseteq 0 .. Len(t.file_items) - 1

\* open_tree(idx) inserts the scan of the directory after idx and moves
\* every selected index past idx up by the number of nodes inserted
InsertKeepsSelection(idx) ==
    LET r == open_tree(tree, World, idx)
        k == Len(r.t.file_items) - Len(tree.file_items)
    IN r.res = "ok" =>
         r.t.selected_items = ShiftedUp(tree.selected_items, idx + 1, k)

\* close_tree(idx) removes the descendants of idx and moves every selected
\* index past them down by the number of nodes removed
RemoveKeepsSelection(idx) ==
    LET r == close_tree(tree, idx)
        k == Len(tree.file_items) - Len(r.t.file_items)
    IN r.res = "ok" =>
         r.t.selected_items = ShiftedDown(tree.selected_items, idx + 1, k)

\* C3: inserting k nodes at position p shifts every selected index >= p by
\* +k, removing k nodes at p shifts every selected index >= p + k by -k, and
\* selected indices < p stay: the same nodes are selected before and after
C3_SelectionStable ==
    SelectionInList(tree) =>
        \A idx \in 0 .. Len(tree.file_items) - 1 :
            InsertKeepsSelection(idx) /\ RemoveKeepsSelection(idx)

\* the entry of the expand store for a path: << >> when there is none
ExpandEntry(t, path) ==
    IF path \in DOMAIN t.expand_store THEN << t.expand_store[path] >> ELSE << >>

\* the node at idx is a directory below the root that is not expanded
ClosedDirAt(t, idx) ==
    /\ 0 < idx /\ idx < Len(t.file_items)
    /\ At(t.file_items, idx).is_dir
    /\ ~is_item_opened(t, At(t.file_items, idx).path)

\* C4: for a closed directory below the root, open_tree(idx) followed by
\* close_tree(idx) with no filesystem change in between restores the node
\* list (paths, order, ids, levels) and the directory's expand-store entry
C4_OpenCloseRoundTrip ==
    \A idx \in 1 .. Len(tree.file_items) - 1 :
        LET opened == open_tree(tree, World, idx)
            closed == close_tree(opened.t, idx)
            path == At(tree.file_items, idx).path
        IN ClosedDirAt(tree, idx) /\ opened.res = "ok" =>
             /\ closed.res = "ok"
             /\ closed.t.file_items = tree.file_items
             /\ ExpandEntry(closed.t, path) = ExpandEntry(tree, path)

\* a closed directory that is followed by other nodes is opened and shows
\* nodes of two levels: its child directory is expanded from an earlier visit
C4_Witness ==
    \E idx \in 1 .. Len(tree.file_items) - 2 :
        LET opened == open_tree(tree, World, idx)
        IN /\ ClosedDirAt(tree, idx)
           /\ opened.res = "ok"
           /\ Len(opened.t.file_items) >= Len(tree.file_items) + 2

\* the node list a scan of `path` as the root yields with the expand store
\* and the settings of t
RootScan(t, w, path) ==
    LET root == FileItem_new(path, 0)
    IN entry_info_recursively_sync(t, w, root, << root >>, 1).items

\* C5: change_root to an existing directory clears the prior nodes, cells
\* and the selection: when it completes the Selection Set is empty, the node
\* list holds the nodes of the new root's scan and no others, and the root
\* path is marked expanded in the Expand Store
C5_RebuildClears ==
    \A path \in AllDirs :
        LET r == change_root(tree, World, path)
        IN registered /\ is_dir(fs, path) /\ r.res = "ok" =>
             /\ r.t.selected_items = {}
             /\ r.t.file_items = RootScan(r.t, World, path)
             /\ is_item_opened(r.t, path)

\* the children of the node at position i are in the list directly after it:
\* the nodes one level below it in its descendant run are the entries of
\* the directory, in the order of the scan
ChildrenShown(t, w, i) ==
    LET node == At(t.file_items, i)
        end == RunEnd(t.file_items, i + 1, node.level)
        kids == SelectSeq(Slice(t.file_items, i + 1, end),
                          LAMBDA m : m.level = node.level + 1)
        want == SortEntries(DirEntries(w, t.show_ignored_files, node.path))
    IN /\ Len(kids) = Len(want)
       /\ \A k \in 1 .. Len(want) :
            kids[k].path = want[k] /\ kids[k].parent = node.path
       /\ want # << >> => At(t.file_items, i + 1).path = want[1]

\* C6: expansion state survives re-rooting.  A directory's entry in the
\* expand store stays through change_root and through close_tree of any
\* other directory, and after change_root to a root under which an expanded
\* directory is visible, its children are in the node list directly after it
C6_ExpansionSurvivesReroot ==
    registered =>
      /\ \A R \in AllDirs :
           LET r == change_root(tree, World, R)
           IN /\ \A D \in AllDirs :
                   is_item_opened(tree, D) => is_item_opened(r.t, D)
              /\ is_dir(fs, R) /\ r.res = "ok" =>
                   \A i \in 0 .. Len(r.t.file_items) - 1 :
                       is_item_opened(tree, At(r.t.file_items, i).path) =>
                           ChildrenShown(r.t, World, i)
      /\ \A idx \in 0 .. Len(tree.file_items) - 1, D \in AllDirs :
           /\ is_item_opened(tree, D)
           /\ D # At(tree.file_items, idx).path
           => is_item_opened(close_tree(tree, idx).t, D)

\* the tree was re-rooted from / to /b while /a was expanded; /a is not in
\* the list now, and re-rooting to / shows /a with its child directly after it
C6_Witness ==
    /\ registered
    /\ Len(tree.file_items) > 0
    /\ tree.file_items[1].path = << "b" >>
    /\ is_item_opened(tree, << "a" >>)
    /\ LET r == change_root(tree, World, RootDir)
       IN /\ r.res = "ok"
          /\ \E i \in 1 .. Len(r.t.file_items) - 2 :
               /\ At(r.t.file_items, i).path = << "a" >>
               /\ At(r.t.file_items, i + 1).path = << "a", "c" >>

\* the elements of a set of indices in ascending order
RECURSIVE Ascending(_)
Ascending(S) ==
    IF S = {} THEN << >>
    ELSE LET m == CHOOSE x \in S : \A y \in S : x <= y
         IN << m >> \o Ascending(S \ {m})

\* the actions of Tree::action that resolve a node from ctx.cursor
CursorActions ==
    { "open_tree", "close_tree", "open_or_close_tree", "open_directory",
      "toggle_select", "rename", "new_file", "remove", "copy", "move",
      "paste", "yank_path", "drop" }

\* what the action `name` makes of the present state when its cursor
\* resolves to idx (the user types the name y and confirms a removal)
CursorAction(name, idx) ==
    CASE name = "open_tree" -> action_open_tree(tree, World, idx)
      [] name = "close_tree" -> action_close_tree(tree, idx)
      [] name = "open_or_close_tree" -> action_open_or_close_tree(tree, World, idx)
      [] name = "open_directory" -> action_open_directory(tree, World, idx)
      [] name = "toggle_select" -> action_toggle_select(tree, idx)
      [] name = "rename" -> action_rename(tree, World, idx, RelInput("y"))
      [] name = "new_file" -> action_new_file(tree, World, idx, RelInput("y"))
      [] name = "remove" ->
            action_remove(tree, World, idx, Ascending(tree.selected_items), TRUE)
      [] name = "copy" ->
            copy_or_move(tree, idx, Ascending(tree.selected_items), "COPY")
      [] name = "move" ->
            copy_or_move(tree, idx, Ascending(tree.selected_items), "MOVE")
      [] name = "paste" -> action_paste(tree, World, idx, clipboard, clipboard_mode)
      [] name = "yank_path" ->
            action_yank_path(tree, idx, Ascending(tree.selected_items))
      [] name = "drop" -> action_drop(tree, World, idx)

\* the outcome r of an action leaves the node list, the cells, the selection
\* set, the expand store and the clipboard as they are
EngineUntouched(r) ==
    /\ r.t.file_items = tree.file_items
    /\ r.t.col_map = tree.col_map
    /\ r.t.selected_items = tree.selected_items
    /\ r.t.expand_store = tree.expand_store
    /\ "clipboard" \in DOMAIN r =>
         r.clipboard = clipboard /\ r.clipboard_mode = clipboard_mode

\* the cursors that address no node of the list
InvalidCursors ==
    { 0 } \cup (Len(tree.file_items) + 1 .. Len(tree.file_items) + CursorSlack)

\* C7: every action that takes a cursor ends with an index error when the
\* cursor is 0 or greater than the node count, and leaves the node list, the
\* cells, the selection set, the expand store and the clipboard as they were
C7_InvalidCursorRejected ==
    registered =>
        \A cursor \in InvalidCursors, name \in CursorActions :
            LET r == CursorAction(name, CursorIdx(cursor))
            IN r.res = "err" /\ EngineUntouched(r)

\* C8: when an action fails partway, as when the directory scan fails during
\* a forced redraw_subtree or during change_root, the node list, the cells,
\* the selection set and the expand store are as they were before the action
C8_FailureLeavesState ==
    registered =>
      /\ \A R \in AllDirs :
           LET r == change_root(tree, World, R)
           IN r.res = "err" => EngineUntouched(r)
      /\ \A idx \in 0 .. Len(tree.file_items) - 1 :
           LET r == redraw_subtree(tree, World, idx, TRUE)
           IN r.res = "err" => EngineUntouched(r)

\* the paths a user may name: the model's universe of paths
AllPaths ==
    { RootDir, << ".h" >>, << "a" >>, << "b" >>, << "f" >>, << "y" >>,
      << "a", "c" >>, << "a", "y" >>, << "a", "c", "x" >> }

\* every input the user may type at the prompt of rename
RenameInputs ==
    { AbsInput(p) : p \in AllPaths }
      \cup { RelInput(Names[n]) : n \in 1 .. Len(Names) }

\* the input names an existing path other than the node's own
NamesExisting(t, idx, input) ==
    /\ Join(At(t.file_items, idx).path, input) \in fs
    /\ Join(At(t.file_items, idx).path, input) # At(t.file_items, idx).path

\* C9: rename of the cursor node to a destination path that already exists
\* returns an error, changes nothing on the filesystem and leaves the node
\* list, the cells and the selection as they are
C9_RenameToExistingRejected ==
    registered =>
        \A idx \in 0 .. Len(tree.file_items) - 1, input \in RenameInputs :
            LET r == action_rename(tree, World, idx, input)
            IN NamesExisting(tree, idx, input) =>
                 /\ r.res = "err"
                 /\ r.fs = fs
                 /\ EngineUntouched(r)

\* a file was created in or moved into the listed directory by an earlier
\* action, and renaming another listed node to its path is refused
C9_Witness ==
    /\ registered
    /\ fs_ops > 0
    /\ \E idx \in 1 .. Len(tree.file_items) - 1, k \in 1 .. Len(tree.file_items) - 1 :
         LET dest == At(tree.file_items, k).path
         IN /\ k # idx
            /\ dest \notin InitFs
            /\ dest \in fs
            /\ action_rename(tree, World, idx, AbsInput(dest)).res = "err"

\* the tasks that execute a mutating entry point against the collection of
\* trees: they are between taking and dropping the write guard
Mutating ==
    { i \in Tasks : /\ task[i].kind \in { "_tree_async_action", "_tree_start",
                                          "_tree_async_func" }
                    /\ task[i].pc \in { "locked", "ran" } }

\* the tasks answering _tree_get_candidate from a tree
Observing == { i \in Tasks : task[i].pc = "reading" }

\* C10: at most one mutating entry point (an action of _tree_async_action,
\* a deferred paste of _tree_async_func, _tree_start) executes against the
\* shared collection of trees at any time, and _tree_get_candidate never
\* observes a tree while an action is in progress
C10_MutualExclusion ==
    /\ Cardinality(Mutating) <= 1
    /\ Observing # {} => Mutating = {}

\* an action has written prev_bufnr of the shared data and still holds the
\* guard while a second action, or _tree_start, and a _tree_get_candidate
\* wait for the lock
C10_Witness ==
    \E i, j, k \in Tasks :
        /\ task[i].kind = "_tree_async_action" /\ task[i].pc = "ran"
        /\ registered /\ prev_bufnr = NoBuf
        /\ task[j].kind \in { "_tree_async_action", "_tree_start" }
        /\ task[j].pc = "called"
        /\ task[k].kind = "_tree_get_candidate" /\ task[k].pc = "called"

----------------------------------------------------------------------------
(* The deferred paste.  action_paste hands an item whose destination       *)
(* exists to tree.pre_paste; the editor asks the user and answers with the *)
(* notification _tree_async_func "paste", whose handler is to call         *)
(* func_paste, which reads CLIPBOARD_MODE when it runs.                    *)

\* the clipboard items that action_paste at idx hands to tree.pre_paste
Deferred(t, w, idx, items) ==
    { k \in 1 .. Len(items) :
        /\ exists(w.fs, items[k])
        /\ InRange(t, idx)
        /\ At(t.file_items, idx).path # RootDir
        /\ items[k] # RootDir
        /\ exists(w.fs, ParentPath(At(t.file_items, idx).path)
                          \o << FileName(items[k]) >>) }

NextDeferred ==
    \/ \E path \in StartPaths : CreateTree(path, DefaultColumns)
    \/ \E cursor \in Cursors : ActionOpenTree(cursor)
    \/ \E cursor \in Cursors, mode \in { "COPY", "MOVE" } :
          ActionCopyOrMove(cursor, mode)
    \/ \E cursor \in Cursors : ActionPaste(cursor)
    \/ \E i \in Tasks : Receive(i, "_tree_async_func")
    \/ \E i \in Tasks : AsyncFuncEnds(i)

SpecDeferred == Init /\ [][NextDeferred]_vars

\* C11: a paste deferred to func_paste performs its filesystem operation
\* with the clipboard mode in force when func_paste runs (the mode of a
\* later copy or move, if one came between): the handler of a
\* _tree_async_func "paste" that answers a deferred item ends only after it
\* ran func_paste under the write guard
C11_DeferredPasteRuns ==
    [][ \A i \in Tasks :
          ( /\ registered
            /\ \E cursor \in Cursors :
                 Deferred(tree, World, CursorIdx(cursor), clipboard) # {}
            /\ task[i].kind = "_tree_async_func"
            /\ task'[i].pc = "idle" )
          => task[i].pc = "ran" ]_vars

----------------------------------------------------------------------------
(* The text surface.  An action sends buf.set_lines and awaits the answer  *)
(* while it holds the write guard; hl_lines only spawns a task that sends  *)
(* tree.hl_lines(...) whenever it is scheduled.  A request is recorded by  *)
(* its kind, the number of the action that made it, its first row and the *)
(* number of rows it covers.                                               *)

Request(op, action, first, count) ==
    [ op |-> op, action |-> action, first |-> first, count |-> count ]

\* the editor's side: what was applied (surface) and what a spawned task
\* has still to send (detached)
Editor == [ surface |-> surface, detached |-> detached ]

\* a set_lines that is spawned like the highlights instead of awaited
buf_set_lines_Detached(e, req) == [ e EXCEPT !.detached = @ \cup { req } ]

\* Tree::buf_set_lines: `buf.set_lines(...).await?`, applied when it returns
buf_set_lines(e, req) == [ e EXCEPT !.surface = Append(@, req) ]

\* Tree::hl_lines: `async_std::task::spawn(async move { execute_lua(...) })`
hl_lines(e, req) == [ e EXCEPT !.detached = @ \cup { req } ]

\* the number of actions that have drawn so far
Draws ==
    Cardinality({ k \in 1 .. Len(surface) : surface[k].op = "set_lines" })
      + Cardinality({ req \in detached : req.op = "set_lines" })

\* the drawing at the end of change_root, open_tree and close_tree: the
\* lines from row `first` on are set, then `count` rows are highlighted
Draw(e, first, count) ==
    hl_lines(buf_set_lines(e, Request("set_lines", Draws + 1, first, count)),
             Request("hl_lines", Draws + 1, first, count))

Drawn(e) == surface' = e.surface /\ detached' = e.detached

\* an action on the tree that draws when it changed the tree and did not fail
DrawStep(r, first) ==
    /\ tree' = r.t
    /\ IF r.res = "ok" /\ r.t # tree
       THEN /\ Draws < MaxDraws
            /\ Drawn(Draw(Editor, first,
                          IF Len(r.t.file_items) > Len(tree.file_items)
                          THEN 1 + Len(r.t.file_items) - Len(tree.file_items)
                          ELSE 1))
       ELSE UNCHANGED << surface, detached >>
    /\ UNCHANGED << singleton, prev_bufnr, fs, unreadable, fs_ops, cfg_ops, registered, clipboard,
                    clipboard_mode, lock, task >>

\* _tree_async_action open_or_close_tree with its drawing
DrawOpenOrCloseTree(cursor) ==
    /\ registered
    /\ DrawStep(action_open_or_close_tree(tree, World, CursorIdx(cursor)),
                CursorIdx(cursor))

\* create_tree with the drawing of change_root: every row is set
DrawCreateTree(path) ==
    /\ ~registered
    /\ Insert(change_root(Tree_new, World, path))
    /\ IF registered'
       THEN Draws < MaxDraws /\ Drawn(Draw(Editor, 0, Len(tree'.file_items)))
       ELSE UNCHANGED << surface, detached >>
    /\ UNCHANGED << singleton, fs, unreadable, fs_ops, cfg_ops, clipboard, clipboard_mode,
                    lock, task >>

\* a spawned task is scheduled and the editor applies its request
ApplyDetached(req) ==
    /\ req \in detached
    /\ surface' = Append(surface, req)
    /\ detached' = detached \ { req }
    /\ UNCHANGED << singleton, prev_bufnr, fs, unreadable, fs_ops, cfg_ops, registered, tree, clipboard,
                    clipboard_mode, lock, task >>

NextSurface ==
    \/ \E path \in StartPaths : DrawCreateTree(path)
    \/ \E cursor \in Cursors : DrawOpenOrCloseTree(cursor)
    \/ \E req \in detached : ApplyDetached(req)

SpecSurface == Init /\ [][NextSurface]_vars

\* C12: the set_lines requests are applied in the order of their actions,
\* and a highlight batch is applied after the set_lines of its own action
\* (it may come after the set_lines of later actions)
C12_SetLinesInActionOrder ==
    \A j, k \in 1 .. Len(surface) :
        /\ ( j < k /\ surface[j].op = "set_lines" /\ surface[k].op = "set_lines" )
             => surface[j].action < surface[k].action
        /\ ( surface[j].op = "set_lines" /\ surface[k].op = "hl_lines"
             /\ surface[j].action = surface[k].action ) => j < k

\* the highlight batch of an action was applied after the set_lines of a
\* later action that rewrote rows the batch refers to
C12_Witness ==
    \E j, k \in 1 .. Len(surface) :
        /\ j < k
        /\ surface[j].op = "set_lines" /\ surface[k].op = "hl_lines"
        /\ surface[j].action > surface[k].action
        /\ surface[j].first <= surface[k].first + surface[k].count - 1

----------------------------------------------------------------------------
(* Properties of the scanner *)

\* p comes before q in a listing: a directory before a non-directory, and
\* within a kind the smaller name first
ListedBefore(p, q) ==
    \/ IsDirPath(p) /\ ~IsDirPath(q)
    \/ IsDirPath(p) = IsDirPath(q) /\ NameRank(FileName(p)) < NameRank(FileName(q))

\* a tree made with the columns mark:filename and reconfigured to filename:
\* col_map keeps the cell list of the mark column
StaleColumns == << "mark", "filename" >>

NextStale ==
    \/ \E path \in StartPaths : CreateTree(path, StaleColumns)
    \/ StartTree(CreateColumns)
    \/ \E cursor \in Cursors :
          Len(tree.file_items) < MaxNodes /\ ActionOpenTree(cursor)
    \/ \E cursor \in Cursors : ActionCloseTree(cursor)

SpecStale == Init /\ [][NextStale]_vars

\* C13: in every listing the scanner makes of a directory the directories
\* precede the non-directories and entries of a kind ascend by name, and the
\* children of a directory stand in the node list in that order
C13_ListingOrder ==
    /\ \A dir \in AllDirs, show \in BOOLEAN :
         LET listing == SortEntries(DirEntries(World, show, dir))
         IN \A j, k \in 1 .. Len(listing) :
                j < k => ListedBefore(listing[j], listing[k])
    /\ \A j, k \in 1 .. Len(tree.file_items) :
         ( j < k /\ tree.file_items[j].parent # NoParent
                 /\ tree.file_items[j].parent = tree.file_items[k].parent )
           => ListedBefore(tree.file_items[j].path, tree.file_items[k].path)

\* the paths of the node list
Paths(t) == [ k \in 1 .. Len(t.file_items) |-> t.file_items[k].path ]

\* a root that holds an empty directory, a file and a hidden file
ScenarioWorld ==
    [ fs |-> { RootDir, << "b" >>, << "f" >>, << ".h" >> }, unreadable |-> {} ]

\* the tree after change_root(path) with show_ignored_files = show
Rebuilt(t, w, path, show) ==
    change_root([ t EXCEPT !.show_ignored_files = show ], w, path)

\* C14: without show_ignored_files no node but the root has a name that
\* starts with '.'; a rebuild lists a directory that is not marked expanded
\* without its children and lists the hidden entries when
\* show_ignored_files is set; a root holding the empty directory b, the
\* file f and the hidden file .h is listed as [root, b, f]
C14_HiddenAndCollapsed ==
    /\ ~tree.show_ignored_files =>
         \A k \in 2 .. Len(tree.file_items) :
             FileName(tree.file_items[k].path) \notin HiddenNames
    /\ \A R \in AllDirs, show \in BOOLEAN :
         LET r == Rebuilt(tree, World, R, show)
         IN is_dir(fs, R) /\ r.res = "ok" =>
              /\ \A k \in 2 .. Len(r.t.file_items) :
                   LET node == r.t.file_items[k]
                   IN /\ show \/ FileName(node.path) \notin HiddenNames
                      /\ ( k < Len(r.t.file_items)
                           /\ ~is_item_opened(tree, node.path) )
                         => r.t.file_items[k + 1].level <= node.level
              /\ show => \A p \in fs :
                   ( Len(p) = Len(R) + 1 /\ ParentPath(p) = R )
                     => \E k \in 2 .. Len(r.t.file_items) :
                            r.t.file_items[k].path = p
    /\ Paths(Rebuilt(Tree_new, ScenarioWorld, RootDir, FALSE).t)
         = << RootDir, << "b" >>, << "f" >> >>
    /\ ~is_item_opened(Rebuilt(Tree_new, ScenarioWorld, RootDir, FALSE).t, << "b" >>)
    /\ Paths(Rebuilt(Tree_new, ScenarioWorld, RootDir, TRUE).t)
         = << RootDir, << "b" >>, << ".h" >>, << "f" >> >>

\* the hidden file is listed, and turning show_ignored_files off would drop
\* it while a closed directory that has children stays collapsed
C14_Witness ==
    /\ registered
    /\ tree.show_ignored_files
    /\ \E k \in 2 .. Len(tree.file_items) :
         FileName(tree.file_items[k].path) \in HiddenNames
    /\ \E k \in 2 .. Len(tree.file_items) :
         /\ tree.file_items[k].path = << "a" >>
         /\ ~is_item_opened(tree, << "a" >>)
         /\ Len(Rebuilt(tree, World, RootDir, FALSE).t.file_items)
              < Len(tree.file_items)

\* the directory at idx is closed, below the root, readable and lists nothing
EmptyClosedDirAt(t, w, idx) ==
    /\ ClosedDirAt(t, idx)
    /\ CanReadDir(w, At(t.file_items, idx).path)
    /\ DirEntries(w, t.show_ignored_files, At(t.file_items, idx).path) = {}

\* C15: open_tree on an empty closed directory below the root leaves the
\* node list as it is and marks the directory expanded; close_tree on it
\* afterwards leaves the node list as it is and removes the mark
C15_EmptyDirToggle ==
    \A idx \in 1 .. Len(tree.file_items) - 1 :
        EmptyClosedDirAt(tree, World, idx) =>
            /\ open_tree(tree, World, idx).t.file_items = tree.file_items
            /\ is_item_opened(open_tree(tree, World, idx).t,
                              At(tree.file_items, idx).path)
            /\ close_tree(open_tree(tree, World, idx).t, idx).t.file_items
                 = tree.file_items
            /\ ~is_item_opened(close_tree(open_tree(tree, World, idx).t, idx).t,
                               At(tree.file_items, idx).path)

\* an empty closed directory stands between other nodes of the list, and
\* both operations on it succeed
C15_Witness ==
    \E idx \in 2 .. Len(tree.file_items) - 2 :
        /\ EmptyClosedDirAt(tree, World, idx)
        /\ open_tree(tree, World, idx).res = "ok"
        /\ close_tree(open_tree(tree, World, idx).t, idx).res = "ok"

\* Tree::get_context_value: the reply to a "_tree_get_context" request for
\* the 1-based cursor
get_context_value(t, cursor) ==
    [ is_directory |-> At(t.file_items, cursor - 1).is_dir,
      is_opened_tree |-> is_item_opened(t, At(t.file_items, cursor - 1).path),
      level |-> At(t.file_items, cursor - 1).level ]

\* number of parent links from the node up to the node without a parent
RECURSIVE ParentChain(_, _)
ParentChain(t, fileitem) ==
    IF fileitem.parent = NoParent \/ ~HasParentItem(t, fileitem)
    THEN 0
    ELSE 1 + ParentChain(t, ParentItem(t, fileitem))

\* every node but the first has its parent in the list, one level above it
LevelsFollowParents(t) ==
    \A k \in 2 .. Len(t.file_items) :
        /\ HasParentItem(t, t.file_items[k])
        /\ t.file_items[k].level = ParentItem(t, t.file_items[k]).level + 1

\* C16 as stated: the root has level 0, every other node is one level below
\* its parent, and the number of parent links of a node is its level, which
\* get_context reports
C16_RootLevelZero ==
    /\ Len(tree.file_items) > 0 => tree.file_items[1].level = 0
    /\ LevelsFollowParents(tree)
    /\ \A cursor \in 1 .. Len(tree.file_items) :
           get_context_value(tree, cursor).level
             = ParentChain(tree, At(tree.file_items, cursor - 1))

\* C16: the root has level -1 and no parent, every other node is one level
\* below its parent, and the number of parent links of a node is its level
\* plus one; get_context reports that level, so 0 for the root's children
C16_LevelsBelowRoot ==
    /\ Len(tree.file_items) > 0 =>
           /\ tree.file_items[1].level = 0 - 1
           /\ tree.file_items[1].parent = NoParent
    /\ LevelsFollowParents(tree)
    /\ \A cursor \in 1 .. Len(tree.file_items) :
           get_context_value(tree, cursor).level + 1
             = ParentChain(tree, At(tree.file_items, cursor - 1))

\* the list holds the root, a child of it and a grandchild two links down
C16_Witness ==
    /\ registered
    /\ \E cursor \in 1 .. Len(tree.file_items) :
           /\ get_context_value(tree, cursor).level = 1
           /\ ParentChain(tree, At(tree.file_items, cursor - 1)) = 2

\* the cells row i has after r, one per configured column
StoredRow(r, i) ==
    [ c \in 1 .. Len(r.t.columns) |-> At(r.t.col_map[r.t.columns[c]], i) ]

\* the cells of row i in the batch layout of the rows sl .. el - 1
BatchRow(t, i, sl, el) ==
    [ c \in 1 .. Len(t.columns) |->
        make_cells(t, Slice(t.file_items, sl, el), sl = 0)[c][i - sl + 1] ]

\* C17: the cells update_cells(i, i + 1) stores for row i are, in text,
\* highlight group, column extent and byte extent, the cells make_cells
\* yields for row i over every range of rows sl .. el - 1 that contains i,
\* with the root flag `sl == 0` of insert_items_and_cells and redraw_subtree
C17_SingleRowEqualsBatch ==
    \A i \in 0 .. Len(tree.file_items) - 1 :
        update_cells(tree, i, i + 1).res = "ok" =>
            \A sl \in 0 .. i : \A el \in i + 1 .. Len(tree.file_items) :
                StoredRow(update_cells(tree, i, i + 1), i) = BatchRow(tree, i, sl, el)

\* a directory row below the root, with rows before and after it, is laid
\* out alone and inside the batch of the whole list
C17_Witness ==
    /\ registered
    /\ \E i \in 1 .. Len(tree.file_items) - 2 :
           /\ At(tree.file_items, i).is_dir
           /\ update_cells(tree, i, i + 1).res = "ok"
           /\ StoredRow(update_cells(tree, i, i + 1), i)
                = BatchRow(tree, i, 0, Len(tree.file_items))

----------------------------------------------------------------------------
(* Filename alignment: trees of several column lists over directories that *)
(* hold files with short and long names                                    *)

WideNames == { Wide8, Wide58, Wide61 }

AlignColumns == { << "mark", "filename" >>, << "mark", "indent", "icon", "filename" >> }

\* a file appears in the root directory (created outside the program)
Touch(name) ==
    /\ RootDir \o << name >> \notin fs
    /\ fs' = fs \cup { RootDir \o << name >> }
    /\ UNCHANGED << singleton, prev_bufnr, unreadable, fs_ops, cfg_ops, registered, tree, clipboard,
                    clipboard_mode, lock, task, surface, detached >>

NextAlign ==
    \/ \E path \in { RootDir, << "a" >> }, columns \in AlignColumns :
           CreateTree(path, columns)
    \/ \E name \in WideNames : Touch(name)
    \/ \E cursor \in Cursors : ActionOpenTree(cursor)
    \/ \E cursor \in Cursors : ActionCloseTree(cursor)
    \/ \E cursor \in Cursors : ActionToggleSelect(cursor)
    \/ ActionRedraw

SpecAlign == Init /\ [][NextAlign]_vars

\* the end column the text of a cell reaches from the cell's start
NaturalEnd(cell) == cell.col_start + TextWidth(cell.text)

\* the filename cells of the tree
FilenameCells(t) ==
    IF "filename" \in DOMAIN t.col_map
    THEN { t.col_map["filename"][k] : k \in 1 .. Len(t.col_map["filename"]) }
    ELSE {}

\* C18: every filename cell ends at column KSTOP or beyond; a cell whose
\* text ends before KSTOP ends at KSTOP exactly and its byte_end lies as many
\* bytes beyond the end of its text as its col_end lies beyond the text
C18_FilenameAligned ==
    \A cell \in FilenameCells(tree) :
        /\ cell.col_end >= KSTOP
        /\ NaturalEnd(cell) < KSTOP =>
               /\ cell.col_end = KSTOP
               /\ cell.byte_end = cell.byte_start + TextLen(cell.text)
                                    + (KSTOP - NaturalEnd(cell))

\* columns mark:filename without an icon column: one filename cell of width
\* 8 is padded to KSTOP and another one reaches beyond KSTOP by itself
C18_Witness ==
    /\ registered
    /\ tree.columns = << "mark", "filename" >>
    /\ \E cell \in FilenameCells(tree) :
           TextWidth(cell.text) = 8 /\ cell.col_end = KSTOP
    /\ \E cell \in FilenameCells(tree) :
           NaturalEnd(cell) > KSTOP /\ cell.col_end = NaturalEnd(cell)

----------------------------------------------------------------------------
(* close_tree on an expanded directory *)

\* the directory at idx is expanded and lies below the root
OpenedDirAt(t, idx) ==
    /\ 0 < idx /\ idx < Len(t.file_items)
    /\ At(t.file_items, idx).is_dir
    /\ is_item_opened(t, At(t.file_items, idx).path)

\* the positions after idx up to the first node that is not deeper than idx
DeeperRun(t, idx) ==
    { k \in idx + 1 .. Len(t.file_items) - 1 :
        \A j \in idx + 1 .. k : At(t.file_items, j).level > At(t.file_items, idx).level }

\* the nodes of a list without their ids
Unnumbered(file_items) ==
    [ k \in 1 .. Len(file_items) |-> [ file_items[k] EXCEPT !.id = 0 ] ]

\* C19: close_tree(idx) on an expanded directory below the root removes the
\* nodes of the run after idx that are deeper than the node at idx and no
\* other node, keeps the order of the nodes left, removes the directory from
\* the expand store, and no node selected inside the run stays selected:
\* the selection is the one of the nodes left, moved to their positions
C19_CloseRemovesRun ==
    \A idx \in 1 .. Len(tree.file_items) - 1 :
        OpenedDirAt(tree, idx) =>
            /\ Unnumbered(close_tree(tree, idx).t.file_items)
                 = Unnumbered(Splice(tree.file_items, idx + 1,
                                     idx + 1 + Cardinality(DeeperRun(tree, idx)),
                                     << >>))
            /\ ~is_item_opened(close_tree(tree, idx).t, At(tree.file_items, idx).path)
            /\ close_tree(tree, idx).t.selected_items \cap (0 .. Len(tree.file_items) - 1)
                 = ShiftedDown(tree.selected_items \cap (0 .. Len(tree.file_items) - 1),
                               idx + 1, Cardinality(DeeperRun(tree, idx)))

\* the operation returned Ok(()) and wrote nothing: node list, cell lists,
\* selection and expand store are the ones of t
Untouched(r, t) == r.res = "ok" /\ r.t = t

\* C20: open_tree and close_tree on the root row, open_tree on a file or on
\* an expanded directory, and close_tree on a file or on a collapsed
\* directory return Ok and leave node list, cells, selection and expand
\* store as they are
C20_NothingToToggle ==
    /\ Untouched(open_tree(tree, World, 0), tree)
    /\ Untouched(close_tree(tree, 0), tree)
    /\ \A idx \in 1 .. Len(tree.file_items) - 1 :
           /\ ~ClosedDirAt(tree, idx) => Untouched(open_tree(tree, World, idx), tree)
           /\ ~OpenedDirAt(tree, idx) => Untouched(close_tree(tree, idx), tree)

\* the list shows, below the root with its children, a file, an expanded
\* directory and a collapsed directory, and one node is selected
C20_Witness ==
    /\ registered
    /\ Len(tree.file_items) > 1
    /\ tree.selected_items # {}
    /\ \E idx \in 1 .. Len(tree.file_items) - 1 : ~At(tree.file_items, idx).is_dir
    /\ \E idx \in 1 .. Len(tree.file_items) - 1 : OpenedDirAt(tree, idx)
    /\ \E idx \in 1 .. Len(tree.file_items) - 1 : ClosedDirAt(tree, idx)

----------------------------------------------------------------------------
(* redraw_subtree *)

\* the cells of the rows outside start .. end - 1 are the same in both trees
SameCellsOutside(t, u, start, end) ==
    \A col \in DOMAIN t.col_map :
        /\ col \in DOMAIN u.col_map
        /\ \A k \in 1 .. Len(t.col_map[col]) :
               (k - 1 < start \/ k - 1 >= end) =>
                   /\ k <= Len(u.col_map[col])
                   /\ u.col_map[col][k] = t.col_map[col][k]

\* redraw_subtree(idx, false) writes cells of the descendant rows of idx only
RedrawKeepsNodes(idx) ==
    /\ redraw_subtree(tree, World, idx, FALSE).t.file_items = tree.file_items
    /\ redraw_subtree(tree, World, idx, FALSE).t.selected_items = tree.selected_items
    /\ redraw_subtree(tree, World, idx, FALSE).t.expand_store = tree.expand_store
    /\ SameCellsOutside(tree, redraw_subtree(tree, World, idx, FALSE).t, idx + 1,
                        idx + 1 + Cardinality(DeeperRun(tree, idx)))

\* C21: redraw_subtree(idx, false) leaves the node list with its ids, the
\* selection and the expand store as they are and writes no cell outside
\* the descendant rows of idx; redraw_subtree(idx, true), with the
\* filesystem as it was when the list was built, yields the node list again
C21_RedrawFrame ==
    \A idx \in 0 .. Len(tree.file_items) - 1 :
        /\ RedrawKeepsNodes(idx)
        /\ redraw_subtree(tree, World, idx, TRUE).t.file_items = tree.file_items

\* an expanded directory with descendants, one of them selected, is redrawn
\* both ways
C21_Witness ==
    /\ registered
    /\ \E idx \in 1 .. Len(tree.file_items) - 1 :
           /\ OpenedDirAt(tree, idx)
           /\ DeeperRun(tree, idx) \cap tree.selected_items # {}
           /\ redraw_subtree(tree, World, idx, FALSE).res = "ok"
           /\ redraw_subtree(tree, World, idx, TRUE).res = "ok"

\* C21, for the rows redraw_subtree is called for: redraw_subtree(idx, false)
\* leaves the node list with its ids, the selection and the expand store as
\* they are and writes no cell outside the descendant rows of idx; for the
\* root and for an expanded directory redraw_subtree(idx, true), with the
\* filesystem as it was when the list was built, yields the node list
\* again, also right after open_tree built the rows of the directory
C21_RedrawFrameOpened ==
    \A idx \in 0 .. Len(tree.file_items) - 1 :
        /\ RedrawKeepsNodes(idx)
        /\ (idx = 0 \/ OpenedDirAt(tree, idx)) =>
               redraw_subtree(tree, World, idx, TRUE).t.file_items = tree.file_items
        /\ (ClosedDirAt(tree, idx) /\ open_tree(tree, World, idx).res = "ok") =>
               redraw_subtree(open_tree(tree, World, idx).t, World, idx, TRUE).t.file_items
                 = open_tree(tree, World, idx).t.file_items

----------------------------------------------------------------------------
(* toggle_select with its drawing *)

\* _tree_async_action toggle_select: one line is set and highlighted (the
\* highlights stay with their spawned tasks here)
DrawToggleSelect(cursor) ==
    /\ registered
    /\ DrawStep(action_toggle_select(tree, CursorIdx(cursor)), CursorIdx(cursor))

NextToggle ==
    \/ \E path \in StartPaths : DrawCreateTree(path)
    \/ \E cursor \in Cursors : DrawOpenOrCloseTree(cursor)
    \/ \E cursor \in Cursors : DrawToggleSelect(cursor)

SpecToggle == Init /\ [][NextToggle]_vars

\* the requests a step hands to the editor, applied or still to be sent
Sent == { surface[k] : k \in 1 .. Len(surface) } \cup detached

\* what a toggle_select step at row idx changes and what it leaves
ToggledOnly(idx) ==
    /\ tree'.selected_items \ {idx} = tree.selected_items \ {idx}
    /\ (idx \in tree'.selected_items) = (idx \notin tree.selected_items)
    /\ tree'.file_items = tree.file_items
    /\ tree'.expand_store = tree.expand_store
    /\ SameCellsOutside(tree, tree', idx, idx + 1)
    /\ \A req \in Sent' \ Sent : req.first = idx /\ req.count = 1
    /\ action_toggle_select(tree', idx).t.selected_items = tree.selected_items

\* C22: a toggle_select step at a row of the list flips that row in the
\* selection and leaves the other entries, the node list, the expand store
\* and the cells of the other rows as they are; the lines it sends are that
\* one row; a second toggle_select at the row gives the selection back
C22_ToggleFlipsOneRow ==
    [][ \A cursor \in 1 .. Len(tree.file_items) :
            DrawToggleSelect(cursor) => ToggledOnly(cursor - 1) ]_vars

\* a row below the root was selected beside another selected row, and the
\* line of that row was set again
C22_Witness ==
    /\ registered
    /\ Cardinality(tree.selected_items) = 2
    /\ \E k \in 1 .. Len(surface) :
           /\ surface[k].op = "set_lines"
           /\ surface[k].action = 3
           /\ surface[k].first \in tree.selected_items \ {0}
           /\ surface[k].count = 1

----------------------------------------------------------------------------
(* toggle_select_all and clear_select_all *)

\* the cells stored for every row from `first` on are the ones the layout
\* yields for the tree r left
CellsCurrent(r, first) ==
    /\ r.res = "ok"
    /\ \A i \in first .. Len(r.t.file_items) - 1 :
           StoredRow(r, i) = BatchRow(r.t, i, 0, Len(r.t.file_items))

\* C23: toggle_select_all makes the selection its complement over the rows
\* 0 .. n - 1 and clear_select_all empties it; both leave the node list as
\* it is, and afterwards the cells of every row, row 0 included, show the
\* new selection
C23_SelectAllShown ==
    SelectionInList(tree) /\ registered =>
        /\ action_toggle_select_all(tree, World).t.selected_items
             = (0 .. Len(tree.file_items) - 1) \ tree.selected_items
        /\ action_toggle_select_all(tree, World).t.file_items = tree.file_items
        /\ CellsCurrent(action_toggle_select_all(tree, World), 0)
        /\ action_clear_select_all(tree, World).t.selected_items = {}
        /\ action_clear_select_all(tree, World).t.file_items = tree.file_items
        /\ CellsCurrent(action_clear_select_all(tree, World), 0)

----------------------------------------------------------------------------
(* copy and move *)

\* the set of the paths in a clipboard
ClipboardSet(paths) == { paths[k] : k \in 1 .. Len(paths) }

\* C24: copy and move at a row of the list put into the clipboard the paths
\* of the selected rows, or the path of the cursor row when nothing is
\* selected, in place of what the clipboard held; the mode is the action's,
\* and the tree is left as it is
C24_ClipboardSnapshot ==
    registered =>
        \A cursor \in 1 .. Len(tree.file_items), mode \in { "COPY", "MOVE" } :
            \A order \in Orders(tree.selected_items) :
                /\ copy_or_move(tree, cursor - 1, order, mode).res = "ok"
                /\ ClipboardSet(copy_or_move(tree, cursor - 1, order, mode).clipboard)
                     = IF tree.selected_items = {}
                       THEN { At(tree.file_items, cursor - 1).path }
                       ELSE { At(tree.file_items, i).path : i \in tree.selected_items }
                /\ Len(copy_or_move(tree, cursor - 1, order, mode).clipboard)
                     = IF tree.selected_items = {} THEN 1
                       ELSE Cardinality(tree.selected_items)
                /\ copy_or_move(tree, cursor - 1, order, mode).clipboard_mode = mode
                /\ copy_or_move(tree, cursor - 1, order, mode).t = tree

----------------------------------------------------------------------------
(* paste *)

\* where paste at row idx puts the clipboard path `item`
PasteDest(t, idx, item) ==
    ParentPath(At(t.file_items, idx).path) \o << FileName(item) >>

\* the directory of the path is shown with its children: it is the root of
\* the list or a listed directory that is expanded
DirShown(t, dir) ==
    \E k \in 1 .. Len(t.file_items) :
        /\ t.file_items[k].path = dir
        /\ (k = 1 \/ is_item_opened(t, dir))

\* C25: paste at a row treats every clipboard path that exists by itself:
\* when its destination name exists in the target directory nothing is
\* done to the two paths; otherwise the destination exists afterwards, the
\* source is kept (COPY) or gone (MOVE), and the destination is in the node
\* list when its directory is shown
C25_PasteEachPath ==
    registered =>
        \A cursor \in 1 .. Len(tree.file_items) :
            \A k \in 1 .. Len(clipboard) :
                ( /\ exists(fs, clipboard[k])
                  /\ clipboard[k] # RootDir
                  /\ At(tree.file_items, cursor - 1).path # RootDir ) =>
                    IF exists(fs, PasteDest(tree, cursor - 1, clipboard[k]))
                    THEN action_paste(tree, World, cursor - 1, clipboard,
                                      clipboard_mode).fs = fs
                    ELSE /\ exists(action_paste(tree, World, cursor - 1, clipboard,
                                                clipboard_mode).fs,
                                   PasteDest(tree, cursor - 1, clipboard[k]))
                         /\ exists(action_paste(tree, World, cursor - 1, clipboard,
                                                clipboard_mode).fs, clipboard[k])
                              = (clipboard_mode = "COPY")
                         /\ DirShown(action_paste(tree, World, cursor - 1, clipboard,
                                                  clipboard_mode).t,
                                     ParentPath(PasteDest(tree, cursor - 1, clipboard[k])))
                              => PasteDest(tree, cursor - 1, clipboard[k])
                                   \in ClipboardSet(Paths(
                                           action_paste(tree, World, cursor - 1,
                                                        clipboard, clipboard_mode).t))

----------------------------------------------------------------------------
(* remove *)

\* the paths remove at row idx is to delete
RemoveTargetSet(t, idx) ==
    IF t.selected_items = {} THEN { At(t.file_items, idx).path }
    ELSE { At(t.file_items, i).path :
             i \in t.selected_items \cap (0 .. Len(t.file_items) - 1) }

\* what is left of the filesystem without the targets and what lies below
WithoutTargets(fsys, targets) ==
    { q \in fsys : \A p \in targets : ~IsPrefix(p, q) }

\* C26: a remove that was not forced and not confirmed leaves the
\* filesystem, the node list and the selection as they are; a confirmed
\* remove deletes the selected nodes, or the cursor node when nothing is
\* selected, and nothing else, and none of them is in the node list then
C26_RemoveOnlyConfirmed ==
    registered =>
        \A cursor \in 1 .. Len(tree.file_items) :
            \A order \in Orders(tree.selected_items) :
                /\ action_remove(tree, World, cursor - 1, order, FALSE).fs = fs
                /\ action_remove(tree, World, cursor - 1, order, FALSE).t.file_items
                     = tree.file_items
                /\ action_remove(tree, World, cursor - 1, order, FALSE).t.selected_items
                     = tree.selected_items
                /\ action_remove(tree, World, cursor - 1, order, TRUE).fs
                     = WithoutTargets(fs, RemoveTargetSet(tree, cursor - 1))
                /\ ClipboardSet(Paths(action_remove(tree, World, cursor - 1, order,
                                                    TRUE).t))
                     \cap RemoveTargetSet(tree, cursor - 1) = {}

----------------------------------------------------------------------------
(* Cursor history *)

\* the path of the root node
RootPath(t) == t.file_items[1].path

\* the step is a re-rooting action, called with the cursor on line `cursor`,
\* that leaves the root it was called on
LeavesRoot(cursor) ==
    /\ ActionOpenDirectory(cursor) \/ ActionDrop(cursor) \/ ActionCd("..", cursor)
    /\ Len(tree.file_items) > 0
    /\ Len(tree'.file_items) > 0
    /\ RootPath(tree') # RootPath(tree)

\* C27: after cd, open_directory or drop left the root R with the cursor on
\* a line, re-rooting to R puts the cursor on that line again
C27_CursorRestored ==
    [][ \A cursor \in 1 .. Len(tree.file_items) :
            LeavesRoot(cursor) =>
                cursor_pos(tree', RootPath(tree),
                           Len(change_root(tree', World, RootPath(tree)).t.file_items))
                  = cursor ]_vars

\* C28: a _tree_async_action notification whose context names the buffer of
\* an existing tree runs that tree's action with the supplied cursor and
\* leaves prev_bufnr on an existing tree, so that a later _tree_start
\* without a bufnr finds it
C28_ActionDispatched ==
    [][ \A i \in Tasks, cursor \in 1 .. 2 :
            (registered /\ RunAction(i, cursor)) =>
                /\ tree' = action_open_or_close_tree(tree, World, CursorIdx(cursor)).t
                /\ prev_bufnr' = Bufnr ]_vars

-----------------------------------------------------------------------------
(* The Singleton of singleton.rs, shared by the handlers of main.rs.  The   *)
(* data kept here is what the closures of main.rs touch: cfg_map["new"] and *)
(* whether resource holds "start_path".                                     *)

\* the closures main.rs hands to take_for: `d.cfg_map = cfg_map` with "new"
\* true or false, and the one that reads cfg_map["new"] and inserts start_path
Closures == { "cfg_new", "cfg_old", "is_new" }

\* the values the stored data can take
InnerValues == [ new : { "None", "true", "false" }, start_path : BOOLEAN ]

\* what closure f does to the data d when nothing else touches it
Closure_apply(f, d) ==
    CASE f = "cfg_new" -> [ d EXCEPT !.new = "true" ]
      [] f = "cfg_old" -> [ d EXCEPT !.new = "false" ]
      [] OTHER -> IF d.new = "true" THEN [ d EXCEPT !.start_path = TRUE ] ELSE d

InClosure(s) == { i \in Threads : s.thread[i].pc = "in_f" }

OnlySingleton ==
    UNCHANGED << fs, unreadable, fs_ops, cfg_ops, registered, tree, clipboard,
                 clipboard_mode, lock, task, surface, detached, prev_bufnr >>

\* a thread calls take_for(f)
take_for(i, f) ==
    /\ singleton.thread[i].pc = "idle"
    /\ singleton' = [ singleton EXCEPT
                        !.thread[i] = [ f |-> f, pc |-> "called", raced |-> FALSE ] ]
    /\ OnlySingleton

\* `self.lock.lock().unwrap()`: the Mutex is taken when no thread holds it
Mutex_lock(i) ==
    /\ singleton.thread[i].pc = "called"
    /\ singleton.lock = NoTask
    /\ singleton' = [ singleton EXCEPT !.lock = i, !.thread[i].pc = "locked" ]
    /\ OnlySingleton

\* `let _ = ...;`: the pattern `_` binds nothing, so the MutexGuard is a
\* temporary that is dropped, and the Mutex released, at the end of the
\* statement
Guard_drop(i) ==
    /\ singleton.thread[i].pc = "locked"
    /\ singleton' = [ singleton EXCEPT !.lock = NoTask, !.thread[i].pc = "unlocked" ]
    /\ OnlySingleton

\* `f(unsafe { &mut *self.inner.get() })`: the closure starts; threads whose
\* closures overlap hold two `&mut` to the same data
Closure_call(i) ==
    /\ singleton.thread[i].pc = "unlocked"
    /\ singleton' =
         [ singleton EXCEPT
             !.thread = [ j \in Threads |->
                 IF j = i
                 THEN [ @[j] EXCEPT !.pc = "in_f",
                                    !.raced = InClosure(singleton) # {} ]
                 ELSE IF @[j].pc = "in_f" THEN [ @[j] EXCEPT !.raced = TRUE ]
                 ELSE @[j] ] ]
    /\ OnlySingleton

\* the closure returns: its effect on the data, or, after a data race, any
\* value of the data
Closure_return(i) ==
    /\ singleton.thread[i].pc = "in_f"
    /\ \E d \in InnerValues :
         /\ singleton.thread[i].raced
              \/ d = Closure_apply(singleton.thread[i].f, singleton.inner)
         /\ singleton' = [ singleton EXCEPT
                             !.inner = d,
                             !.thread[i] = [ f |-> "none", pc |-> "idle", raced |-> FALSE ] ]
    /\ OnlySingleton

NextSingleton ==
    \/ \E i \in Threads, f \in Closures : take_for(i, f)
    \/ \E i \in Threads : Mutex_lock(i)
    \/ \E i \in Threads : Guard_drop(i)
    \/ \E i \in Threads : Closure_call(i)
    \/ \E i \in Threads : Closure_return(i)

SpecSingleton == Init /\ [][NextSingleton]_vars

\* C29: the closures of two threads that call take_for on the same Singleton
\* never execute at the same time
C29_ClosuresExclusive == Cardinality(InClosure(singleton)) <= 1

\* a step the git overlay map is to be refreshed by: the initial root
\* change, update_git_map, or an action that ends in a forced redraw
Refreshes ==
    \/ \E path \in StartPaths : CreateTree(path, DefaultColumns) /\ registered'
    \/ ActionUpdateGitMap /\ action_update_git_map(tree, World).res = "ok"
    \/ ActionRedraw /\ action_redraw(tree, World).res = "ok"
    \/ ActionShowIgnored /\ action_show_ignored(tree, World).res = "ok"
    \/ /\ fs' # fs
       /\ \/ \E cursor \in Cursors, input \in Inputs : ActionRename(cursor, input)
          \/ \E cursor \in Cursors, input \in Inputs : ActionNewFile(cursor, input)
          \/ \E cursor \in Cursors : ActionRemove(cursor, TRUE)

\* C30: after the initial root change, update_git_map and every action that
\* forces a redraw, git_map equals the result of the status scan
C30_GitMapRefreshed ==
    [][ (Refreshes /\ Len(tree'.file_items) > 0) =>
            tree'.git_map = statuses(fs') ]_vars

\* the paths that have an entry in git_map
GitMapKeys(t) == { e[1] : e \in t.git_map }

\* C31: the git cell of a row is blank exactly when git_map has no entry for
\* the row's path, and shows the status recorded for the path otherwise
C31_GitCellFromMap ==
    registered =>
        \A i \in 0 .. Len(CellsOf(tree, "git")) - 1 :
            i < Len(tree.file_items) =>
                (At(CellsOf(tree, "git"), i).text = << >>
                   <=> At(tree.file_items, i).path \notin GitMapKeys(tree))

-----------------------------------------------------------------------------
(* The errors the actions return.  errors.rs defines one error type,        *)
(* ArgError; a failing std::fs call is passed on by `?` as std::io::Error.  *)

\* the type of the error Tree::action_rename returns, "None" when it returns
\* Ok or panics
action_rename_Err(t, w, idx, new_filename) ==
    IF ~InRange(t, idx) THEN "None"
    ELSE LET cur == At(t.file_items, idx)
             new_path == Join(cur.path, new_filename)
         IN IF new_filename = NoInput \/ new_path = cur.path THEN "None"
            ELSE IF exists(w.fs, new_path) THEN "ArgError"
            ELSE IF ~RenameOk(w.fs, cur.path, new_path) THEN "io::Error"
            ELSE "None"

\* the type of the error Tree::close_tree returns for a position that is not
\* in the node list
close_tree_Err(t, idx) ==
    IF idx # 0 /\ (idx < 0 \/ idx >= Len(t.file_items)) THEN "ArgError" ELSE "None"

\* the type of the error Tree::action_remove returns for arguments that are
\* no array
action_remove_Err(args_is_array) ==
    IF ~args_is_array THEN "ArgError" ELSE "None"

\* C32: the error of a rename whose destination exists is of a kind
\* different from the kinds reported for an out-of-range position, for
\* malformed arguments and for an I/O failure
C32_ErrorKindsDistinct ==
    registered =>
        \A cursor \in 1 .. Len(tree.file_items), input \in Inputs :
            LET conflict == action_rename_Err(tree, World, CursorIdx(cursor), input)
                new_path == Join(At(tree.file_items, CursorIdx(cursor)).path, input)
            IN (conflict # "None" /\ input # NoInput /\ exists(fs, new_path)) =>
                   /\ conflict # close_tree_Err(tree, Len(tree.file_items))
                   /\ conflict # action_remove_Err(FALSE)
                   /\ conflict # "io::Error"

-----------------------------------------------------------------------------
(* The layout of one row *)

\* the separator after column col
Sep(col) == IF col = "indent" THEN 0 ELSE 1

\* the cells make_cells yields for the k-th row of the node list, one per
\* configured column
LaidOutRow(t, k) ==
    [ c \in 1 .. Len(t.columns) |-> make_cells(t, t.file_items, TRUE)[c][k] ]

\* the cells of `row` follow one another in the order of `columns`
Adjacent(columns, row) ==
    /\ Len(row) > 0 => row[1].col_start = 0 /\ row[1].byte_start = 0
    /\ \A j \in 1 .. Len(row) - 1 :
           /\ row[j + 1].col_start = row[j].col_end + Sep(columns[j])
           /\ row[j + 1].byte_start = row[j].byte_end + Sep(columns[j])
    /\ \A j, k \in 1 .. Len(row) :
           j < k => row[j].col_end <= row[k].col_start
                      /\ row[j].byte_end <= row[k].byte_start

\* C33: in every row the cells follow one another in configured column
\* order, each starting where the one before ends plus a separator that is
\* 0 after the indent column and 1 otherwise; the first starts at column 0
\* and byte 0 and no two cells overlap
C33_CellsAdjacent ==
    \A k \in 1 .. Len(tree.file_items) :
        Adjacent(tree.columns, LaidOutRow(tree, k))

\* a row below the root whose indent cell has text, laid out with an icon
\* column right after the indent column
C33_Witness ==
    /\ registered
    /\ tree.columns = << "mark", "indent", "icon", "filename" >>
    /\ \E k \in 1 .. Len(tree.file_items) :
           /\ tree.file_items[k].level > 0
           /\ LaidOutRow(tree, k)[2].text # << >>
           /\ LaidOutRow(tree, k)[3].col_start = LaidOutRow(tree, k)[2].col_end

\* C34: every index in selected_items is a position of the node list, so
\* remove, copy, move and yank_path find a node for every selected index
C34_SelectionInRange ==
    registered =>
        /\ \A i \in tree.selected_items : 0 <= i /\ i < Len(tree.file_items)
        /\ tree.selected_items # {} =>
               \A order \in Orders(tree.selected_items) :
                   action_yank_path(tree, 0, order).res # "panic"

-----------------------------------------------------------------------------
(* Parent links *)

\* the node at position i (below the root) has its parent in the list, at
\* the position the parent's id names; that position is the nearest one
\* before i that is one level up, and the node's path is a child of the
\* parent's path
ParentLinked(t, i) ==
    LET n == At(t.file_items, i)
    IN /\ HasParentItem(t, n)
       /\ LET p == ParentItem(t, n)
          IN /\ 0 <= p.id /\ p.id < i
             /\ At(t.file_items, p.id).path = n.parent
             /\ p.level = n.level - 1
             /\ \A j \in p.id + 1 .. i - 1 : At(t.file_items, j).level >= n.level
             /\ ParentPath(n.path) = p.path

\* C35: for every node below the root, the parent is the node stored at
\* position parent.id, the nearest position before it with level - 1, and
\* the node's path is a direct child of the parent's path
C35_ParentLinks ==
    \A i \in 1 .. Len(tree.file_items) - 1 : ParentLinked(tree, i)

\* a nested directory is expanded: a node of level 1 has its parent below
\* the root, and a node of level 0 follows it
C35_Witness ==
    /\ registered
    /\ \E i \in 1 .. Len(tree.file_items) - 2 :
           /\ At(tree.file_items, i).level = 1
           /\ ParentItem(tree, At(tree.file_items, i)).id >= 1
           /\ At(tree.file_items, Len(tree.file_items) - 1).level = 0

-----------------------------------------------------------------------------
(* The node list and the expand store *)

\* the row at position i is followed by rows that lie below it
HasDescendants(t, i) ==
    /\ i + 1 < Len(t.file_items)
    /\ At(t.file_items, i + 1).level > At(t.file_items, i).level

\* a directory row below the root has descendants only if it is marked
\* expanded, and the root and every directory row marked expanded are
\* followed by their listed entries one level below
AgreesWithExpandStore(t, w) ==
    \A i \in 0 .. Len(t.file_items) - 1 :
        LET node == At(t.file_items, i)
        IN /\ (i > 0 /\ HasDescendants(t, i)) =>
                  node.is_dir /\ is_item_opened(t, node.path)
           /\ (node.is_dir /\ (i = 0 \/ is_item_opened(t, node.path))) =>
                  ChildrenShown(t, w, i)

\* r is the outcome of an action that completed without error and left a
\* node list that agrees with the expand store
KeepsAgreement(r, w) == r.res = "ok" => AgreesWithExpandStore(r.t, w)

\* C36: the node list a tree is built with agrees with the expand store,
\* and on an unchanged filesystem every action that completes without error
\* on a list that agrees leaves a list that agrees
C36_ListAgreesWithExpandStore ==
    /\ \A path \in AllDirs :
           KeepsAgreement(change_root(Tree_new, World, path), World)
    /\ (registered /\ AgreesWithExpandStore(tree, World)) =>
           /\ \A idx \in 0 .. Len(tree.file_items) :
                  /\ KeepsAgreement(open_tree(tree, World, idx), World)
                  /\ KeepsAgreement(close_tree(tree, idx), World)
                  /\ KeepsAgreement(action_open_or_close_tree(tree, World, idx), World)
                  /\ KeepsAgreement(action_open_directory(tree, World, idx), World)
           /\ \A path \in AllDirs : KeepsAgreement(change_root(tree, World, path), World)
           /\ KeepsAgreement(action_redraw(tree, World), World)
           /\ KeepsAgreement(action_show_ignored(tree, World), World)
           /\ KeepsAgreement(action_toggle_select_all(tree, World), World)

\* both a and a/c are expanded and listed with their entries, b is listed
\* collapsed, and the list agrees with the expand store
C36_Witness ==
    /\ registered
    /\ AgreesWithExpandStore(tree, World)
    /\ is_item_opened(tree, << "a" >>)
    /\ is_item_opened(tree, << "a", "c" >>)
    /\ \E i \in 1 .. Len(tree.file_items) - 1 :
           /\ At(tree.file_items, i).path = << "a", "c", "x" >>
           /\ At(tree.file_items, i).level = 2
    /\ ~is_item_opened(tree, << "b" >>)

-----------------------------------------------------------------------------
(* The lines on the text surface.  A line is the text makeline yields; the  *)
(* surface is the sequence of lines the editor holds for the buffer, and    *)
(* set_lines replaces the rows start .. end - 1 of it.                      *)

\* Tree::makeline from the c-th configured column on: the blanks up to the
\* cell, its text, the blanks that fill it
RECURSIVE LineFrom(_, _, _, _)
LineFrom(t, pos, c, start) ==
    IF c > Len(t.columns) THEN << >>
    ELSE LET cell == At(t.col_map[t.columns[c]], pos)
         IN Spaces(cell.col_start - start)
              \o cell.text
              \o Spaces(cell.byte_end - cell.byte_start - TextLen(cell.text))
              \o LineFrom(t, pos, c + 1, cell.col_end)

\* Tree::makeline
makeline(t, pos) == LineFrom(t, pos, 1, 0)

\* (sl..el).map(|i| self.makeline(i)).collect()
LinesOf(t, sl, el) == [ k \in 1 .. el - sl |-> makeline(t, sl + k - 1) ]

\* Buffer::set_lines(start, end, strict_indexing = true, replacement): an
\* end of -1 is the end of the buffer; a range outside the buffer is refused
SetLines(buf, req) ==
    LET end == IF req.end = 0 - 1 THEN Len(buf) ELSE req.end
    IN IF req.start < 0 \/ req.start > end \/ end > Len(buf)
       THEN [ buf |-> buf, ok |-> FALSE ]
       ELSE [ buf |-> SubSeq(buf, 1, req.start) \o req.lines
                        \o SubSeq(buf, end + 1, Len(buf)),
              ok |-> TRUE ]

\* the request open_tree(idx) ends with (r is what open_tree yields); no
\* request when it opens nothing
open_tree_set_lines(t, r, idx) ==
    IF r.res = "ok" /\ idx # 0 /\ At(t.file_items, idx).is_dir
         /\ ~is_item_opened(t, At(t.file_items, idx).path)
    THEN << [ start |-> idx, end |-> idx + 1,
              lines |-> LinesOf(r.t, idx,
                                idx + 1 + Len(r.t.file_items) - Len(t.file_items)) ] >>
    ELSE << >>

\* a close_tree whose request replaces the directory's own row only
close_tree_set_lines_OneRow(t, r, idx) ==
    IF r.res = "ok" /\ idx # 0 /\ At(t.file_items, idx).is_dir
         /\ is_item_opened(t, At(t.file_items, idx).path)
    THEN << [ start |-> idx, end |-> idx + 1, lines |-> << makeline(r.t, idx) >> ] >>
    ELSE << >>

\* the request close_tree(idx) ends with
close_tree_set_lines(t, r, idx) ==
    IF r.res = "ok" /\ idx # 0 /\ At(t.file_items, idx).is_dir
         /\ is_item_opened(t, At(t.file_items, idx).path)
    THEN << [ start |-> idx,
              end |-> RunEnd(t.file_items, idx + 1, At(t.file_items, idx).level),
              lines |-> << makeline(r.t, idx) >> ] >>
    ELSE << >>

\* the request redraw_subtree(parent_idx, force) ends with
redraw_subtree_set_lines(t, r, parent_idx, force) ==
    IF r.res # "ok" THEN << >>
    ELSE LET cur == At(t.file_items, parent_idx)
             start == cur.id + 1
             end == RunEnd(t.file_items, start, cur.level)
             new_end == IF force
                        THEN end + Len(r.t.file_items) - Len(t.file_items)
                        ELSE end
         IN << [ start |-> start, end |-> end,
                 lines |-> LinesOf(r.t, start, new_end) ] >>

\* the request action_toggle_select ends with
action_toggle_select_set_lines(r, idx) ==
    IF r.res # "ok" THEN << >>
    ELSE << [ start |-> idx, end |-> idx + 1, lines |-> << makeline(r.t, idx) >> ] >>

\* the request change_root ends with; none when the path is no directory
change_root_set_lines(w, r, path) ==
    IF r.res = "ok" /\ is_dir(w.fs, path)
    THEN << [ start |-> 0, end |-> 0 - 1,
              lines |-> LinesOf(r.t, 0, Len(r.t.file_items)) ] >>
    ELSE << >>

\* the surface after the requests reqs were applied to buf
Applied(buf, reqs) ==
    IF reqs = << >> THEN [ buf |-> buf, ok |-> TRUE ] ELSE SetLines(buf, reqs[1])

\* the surface that shows t: one line per node, the rendering of its cells
Shown(t) == LinesOf(t, 0, Len(t.file_items))

\* the requests reqs of an action that yielded r turn the surface that
\* showed t into the surface that shows r.t
StaysShown(t, r, reqs) ==
    r.res = "ok" =>
        /\ Applied(Shown(t), reqs).ok
        /\ Applied(Shown(t), reqs).buf = Shown(r.t)
        /\ Len(Applied(Shown(t), reqs).buf) = Len(r.t.file_items)

\* the tree toggle_select_all redraws
AllToggled(t) ==
    [ t EXCEPT !.selected_items =
                  (@ \ (0 .. Len(t.file_items) - 1))
                    \cup ((0 .. Len(t.file_items) - 1) \ @) ]

-----------------------------------------------------------------------------
(* The stored mark cells *)

\* the mark cell stored for every row is the one ColumnCell::new yields for
\* the row in the state of t
MarksCurrent(t) ==
    \A i \in 0 .. Len(t.file_items) - 1 :
        /\ i < Len(CellsOf(t, "mark"))
        /\ At(CellsOf(t, "mark"), i).text
             = ColumnCell_new(t, At(t.file_items, i), "mark", i = 0).text
        /\ At(CellsOf(t, "mark"), i).hl_group
             = ColumnCell_new(t, At(t.file_items, i), "mark", i = 0).hl_group

\* r is the outcome of an action that completed without error and left
\* every stored mark cell current
KeepsMarks(r) == r.res = "ok" => MarksCurrent(r.t)

\* C38: an action that completes without error on a tree whose stored mark
\* cells are current leaves them current: every row, row 0 after
\* toggle_select_all and clear_select_all and the rows shifted by open and
\* close included, shows the selected indicator iff it is selected
C38_MarkCellsCurrent ==
    (registered /\ MarksCurrent(tree) /\ SelectionInList(tree)
       /\ \E c \in 1 .. Len(tree.columns) : tree.columns[c] = "mark") =>
        /\ KeepsMarks(action_toggle_select_all(tree, World))
        /\ KeepsMarks(action_clear_select_all(tree, World))
        /\ \A idx \in 0 .. Len(tree.file_items) - 1 :
               /\ KeepsMarks(action_toggle_select(tree, idx))
               /\ KeepsMarks(open_tree(tree, World, idx))
               /\ KeepsMarks(close_tree(tree, idx))

-----------------------------------------------------------------------------
(* close_tree followed by open_tree *)

\* the rows of the list are what the filesystem holds: the list agrees with
\* the expand store and every directory whose entries are shown can be read
ListCurrent(t, w) ==
    /\ AgreesWithExpandStore(t, w)
    /\ \A i \in 0 .. Len(t.file_items) - 1 :
           (At(t.file_items, i).is_dir
              /\ (i = 0 \/ is_item_opened(t, At(t.file_items, i).path))) =>
               CanReadDir(w, At(t.file_items, i).path)

\* close_tree(idx) followed by open_tree(idx) leaves the node list (paths,
\* order, levels) and the expand store of t
RoundTrip(t, w, idx) ==
    LET closed == close_tree(t, idx)
        opened == open_tree(closed.t, w, idx)
    IN /\ closed.res = "ok"
       /\ opened.res = "ok"
       /\ Unnumbered(opened.t.file_items) = Unnumbered(t.file_items)
       /\ opened.t.expand_store = t.expand_store

\* C39: for an expanded directory below the root in a list that shows what
\* the filesystem holds, close_tree(idx) followed by open_tree(idx) with no
\* filesystem change in between restores the node list (paths, order,
\* levels, the nested expanded descendants included): close keeps the
\* expand-store marks of the descendants and open honours them
C39_CloseOpenRoundTrip ==
    (registered /\ ListCurrent(tree, World)) =>
        \A idx \in 1 .. Len(tree.file_items) - 1 :
            OpenedDirAt(tree, idx) => RoundTrip(tree, World, idx)

-----------------------------------------------------------------------------
(* The root of a registered tree *)

\* position 0 of the node list holds the root, the only node without a parent
RootFirst(t) ==
    /\ Len(t.file_items) > 0
    /\ \A i \in 0 .. Len(t.file_items) - 1 :
           (At(t.file_items, i).parent = NoParent) <=> (i = 0)

\* C40: every registered tree has a node list that is not empty and whose
\* position 0 is the root, the only node without a parent, after _tree_start
\* with a path that is no directory and after a change_root that failed
\* too, so that cd "..", rename and update_git_map find the root
C40_RootPresent ==
    registered =>
        /\ RootFirst(tree)
        /\ action_cd(tree, World, "..", 1).res # "panic"
        /\ action_rename(tree, World, 0, NoInput).res # "panic"
        /\ update_git_map(tree, World).res # "panic"

====
